---- MODULE Spec2Model ----
(***************************************************************************)
(* A model of tender_radar.py: the field extractors, the optical-fallback  *)
(* merge of main(), the page targeting of ocr_targeted_text and the        *)
(* per-entity aggregation (compute_continuous_tenure, build_shortlist).    *)
(*                                                                         *)
(* A Python str is a sequence of one-character strings, so that substring  *)
(* tests and the regular expressions of the source are computed character  *)
(* by character.  "{pound}", "{euro}", "{rsquo}" and "{nbsp}" stand for    *)
(* the characters U+00A3, U+20AC, U+2019 and U+00A0.  The empty str is     *)
(* <<>>.                                                                   *)
(***************************************************************************)
EXTENDS Integers, Sequences, FiniteSets, TLC

\* main()
VARIABLES
    enable_ocr_fallback, \* args.enable_ocr_fallback
    pc,                  \* where main() is: "loop", "extracted", "merged", "done"
    c_idx,               \* the position of the company loop in Companies, 0 before it
    n_filings,           \* the filings the loops have taken so far
    filing_date, auditor, confidence, audit_fee, currency, fee_unit, year, \* locals of the loop body
    ocr_text,            \* the text of the optical pass of this filing, <<>> when none
    primary,             \* the six fields as primary extraction left them (history variable)
    ocr_runs,            \* the calls of ocr_targeted_text for this filing (history variable)
    history_rows,        \* the rows of the history, the records given to the aggregation
    shortlist_rows       \* what build_shortlist returned

\* ocr_targeted_text()
VARIABLES
    page_count,          \* doc.page_count
    max_pages,           \* the page budget
    hits,                \* the pages the sparse phase marked
    pages,               \* the page list of the dense phase
    chunks,              \* the texts the dense phase recognized
    ocr_calls            \* the calls of _ocr_page_text so far (history variable)

\* compute_continuous_tenure() on history_rows
VARIABLES
    tenure,              \* what it returned: auditor and tenure
    tenure_before,       \* what it returned before the last record was added (history variable)
    added                \* the record added last, <<>> when none (history variable)

\* the extractors and fee_to_gbp_numeric, called on their own
VARIABLES
    input_text,          \* the text given to an extractor
    fee_args,            \* the value, unit and currency given to fee_to_gbp_numeric
    fee_gbp,             \* what fee_to_gbp_numeric returned
    extracted,           \* what the extractor returned
    text_parts           \* the lines and blocks of lines input_text was put together from (history variable)

loopVars == <<enable_ocr_fallback, c_idx, n_filings, filing_date, auditor, confidence, audit_fee, currency,
              fee_unit, year, primary, ocr_runs>>

ocrVars == <<page_count, max_pages, hits, pages, chunks, ocr_calls>>

tenureVars == <<tenure, tenure_before, added>>

callVars == <<input_text, fee_args, fee_gbp, extracted, text_parts>>

vars == <<pc, ocr_text, history_rows, shortlist_rows, loopVars, ocrVars, tenureVars, callVars>>

\* The variables of an operation that is not running.
IdleOcr == page_count = 0 /\ max_pages = 0 /\ hits = {} /\ pages = <<>> /\ chunks = <<>> /\ ocr_calls = 0

IdleTenure == tenure = <<>> /\ tenure_before = <<>> /\ added = <<>>

IdleCall == input_text = <<>> /\ fee_args = <<>> /\ fee_gbp = <<>> /\ extracted = <<>> /\ text_parts = 0

IdleLoop ==
    /\ enable_ocr_fallback = FALSE /\ c_idx = 0 /\ n_filings = 0 /\ filing_date = <<>>
    /\ auditor = <<>> /\ confidence = "" /\ audit_fee = <<>> /\ currency = "" /\ fee_unit = "" /\ year = <<>>
    /\ primary = <<>> /\ ocr_runs = 0

----------------------------------------------------------------------------
(* str primitives *)

UpperChars == <<"A","B","C","D","E","F","G","H","I","J","K","L","M","N","O","P","Q","R","S","T","U","V","W","X","Y","Z">>

LowerChars == <<"a","b","c","d","e","f","g","h","i","j","k","l","m","n","o","p","q","r","s","t","u","v","w","x","y","z">>

DigitChars == <<"0","1","2","3","4","5","6","7","8","9">>

Min(a, b) == IF a <= b THEN a ELSE b

Max(a, b) == IF a >= b THEN a ELSE b

\* The least element of a non-empty set of integers.
Least(S) == CHOOSE x \in S : \A y \in S : x <= y

IsUpper(c) == \E i \in 1..Len(UpperChars) : UpperChars[i] = c

IsDigit(c) == \E i \in 1..Len(DigitChars) : DigitChars[i] = c

ToLower(c) == IF IsUpper(c) THEN LowerChars[CHOOSE i \in 1..Len(UpperChars) : UpperChars[i] = c] ELSE c

\* str.lower()
str_lower(s) == SubSeq([i \in 1..Len(s) |-> ToLower(s[i])], 1, Len(s))

\* s[i:i+len(k)] == k, positions counted from 1.
MatchAt(s, i, k) == /\ i >= 1
                    /\ i + Len(k) - 1 <= Len(s)
                    /\ \A j \in 1..Len(k) : s[i + j - 1] = k[j]

\* k in s
Contains(s, k) == \E i \in 1..(Len(s) - Len(k) + 1) : MatchAt(s, i, k)

\* s.find(k) + 1: the first position of k in s, 0 when absent.
Find(s, k) == IF Contains(s, k) THEN Least({i \in 1..(Len(s) - Len(k) + 1) : MatchAt(s, i, k)}) ELSE 0

\* a or b, for the empty-is-false values of the source.
FirstOr(a, b) == IF a # <<>> THEN a ELSE b

\* [t] if t else []
NonEmpty(t) == IF t # <<>> THEN <<t>> ELSE <<>>

\* s.endswith(k)
EndsWith(s, k) == Len(k) <= Len(s) /\ MatchAt(s, Len(s) - Len(k) + 1, k)

\* The first position >= i whose character is outside chars (inside, when neg);
\* Len(s) + 1 when there is none.
RunEnd(s, i, chars, neg) ==
    IF i > Len(s) THEN i ELSE Least({j \in i..(Len(s) + 1) : j = Len(s) + 1 \/ ((s[j] \in chars) = neg)})

\* s.replace("{nbsp}", " ")
replace_nbsp(s) == SubSeq([i \in 1..Len(s) |-> IF s[i] = "{nbsp}" THEN " " ELSE s[i]], 1, Len(s))

\* s.strip(chars) for a set of characters.
lstrip(s, chars) == SubSeq(s, RunEnd(s, 1, chars, FALSE), Len(s))

rstrip(s, chars) == SubSeq(s, 1, Len(s) - Cardinality({i \in 1..Len(s) : \A j \in i..Len(s) : s[j] \in chars}))

strip(s, chars) == rstrip(lstrip(s, chars), chars)

WhiteSpace == {" ", "\n", "{nbsp}"}

\* " ".join(s.split()): runs of whitespace become one blank, none at the ends.
RECURSIVE collapse_ws(_)
collapse_ws(s) ==
    LET t == lstrip(s, WhiteSpace)
        e == RunEnd(t, 1, WhiteSpace, TRUE)
        rest == lstrip(SubSeq(t, e, Len(t)), WhiteSpace)
    IN IF t = <<>> THEN <<>>
       ELSE IF rest = <<>> THEN SubSeq(t, 1, e - 1)
       ELSE SubSeq(t, 1, e - 1) \o <<" ">> \o collapse_ws(rest)

\* The positions where the lines of s start: the first, and those after a
\* line break that is not the end of s.
LineStarts(s) == IF s = <<>> THEN {} ELSE {1} \cup {i + 1 : i \in {j \in 1..(Len(s) - 1) : s[j] = "\n"}}

\* The lines of s that start at the positions of starts.
LinesAt(s, starts) ==
    [k \in 1..Cardinality(starts) |->
        SubSeq(s, CHOOSE a \in starts : Cardinality({b \in starts : b < a}) = k - 1,
               RunEnd(s, CHOOSE a \in starts : Cardinality({b \in starts : b < a}) = k - 1, {"\n"}, TRUE) - 1)]

\* s.splitlines() for the line break "\n".
splitlines(s) == SubSeq(LinesAt(s, LineStarts(s)), 1, Cardinality(LineStarts(s)))

----------------------------------------------------------------------------
(* The regular expressions of the re module, as far as the source uses     *)
(* them.  A pattern is a tree of the nodes below; M(n, s, i) is the        *)
(* sequence of the positions where a match of n that starts at position i  *)
(* of s can end, in the order backtracking tries them (greedy: longest     *)
(* first, lazy: shortest first, alternatives left to right).  A pattern    *)
(* with the flag (?i) is matched against the lowered subject, with its     *)
(* literals and classes in lower case.                                     *)

Lit(k) == [t |-> "lit", k |-> k]

Cls(chars) == [t |-> "cls", chars |-> chars, neg |-> FALSE]

NotCls(chars) == [t |-> "cls", chars |-> chars, neg |-> TRUE]

Cat(ns) == [t |-> "cat", ns |-> ns]

Alt(ns) == [t |-> "alt", ns |-> ns]

\* n{lo,hi}; hi = -1 stands for no upper limit.
Rep(n, lo, hi) == [t |-> "rep", n |-> n, lo |-> lo, hi |-> hi, greedy |-> TRUE]

\* n{lo,hi}?
RepLazy(n, lo, hi) == [t |-> "rep", n |-> n, lo |-> lo, hi |-> hi, greedy |-> FALSE]

Opt(n) == Rep(n, 0, 1)

Star(n) == Rep(n, 0, -1)

Plus(n) == Rep(n, 1, -1)

\* ^ and $ under (?m), and \b
Bol == [t |-> "bol"]

Eol == [t |-> "eol"]

WordB == [t |-> "wordb"]

LetterSet == {LowerChars[i] : i \in 1..Len(LowerChars)} \cup {UpperChars[i] : i \in 1..Len(UpperChars)}

DigitSet == {DigitChars[i] : i \in 1..Len(DigitChars)}

\* \w
IsWord(c) == c \in LetterSet \/ c \in DigitSet \/ c = "_"

\* \s, \d, [^\n], [^\n\r]
SpaceCls == Cls(WhiteSpace)

DigitCls == Cls(DigitSet)

NotNewlineCls == NotCls({"\n", "\r"})

\* es without its repeated positions, the first occurrence kept.
RECURSIVE Dedup(_)
Dedup(es) ==
    IF Len(es) <= 1 THEN es
    ELSE LET h == Len(es) \div 2
             left == Dedup(SubSeq(es, 1, h))
             seen == {left[k] : k \in 1..Len(left)}
         IN left \o SelectSeq(Dedup(SubSeq(es, h + 1, Len(es))), LAMBDA e : e \notin seen)

\* A repeated class: the run of its characters from i on decides the ends.
MRepCls(n, s, i) ==
    LET run == RunEnd(s, i, n.n.chars, n.n.neg) - i
        cap == IF n.hi < 0 THEN run ELSE Min(run, n.hi)
        count == cap - n.lo + 1
    IN IF count <= 0 THEN <<>>
       ELSE IF n.greedy THEN SubSeq([k \in 1..count |-> i + cap - (k - 1)], 1, count)
       ELSE SubSeq([k \in 1..count |-> i + n.lo + (k - 1)], 1, count)

\* The node "each" is the continuation of a match: n.n from each of the
\* positions n.es, in their order.
Each(n, es) == [t |-> "each", n |-> n, es |-> es]

RECURSIVE M(_, _, _)
M(n, s, i) ==
    CASE n.t = "lit" -> IF MatchAt(s, i, n.k) THEN <<i + Len(n.k)>> ELSE <<>>
      [] n.t = "cls" -> IF i <= Len(s) /\ ((s[i] \in n.chars) # n.neg) THEN <<i + 1>> ELSE <<>>
      [] n.t = "cat" ->
            IF n.ns = <<>> THEN <<i>>
            ELSE Dedup(M(Each(Cat(Tail(n.ns)), M(Head(n.ns), s, i)), s, i))
      [] n.t = "each" ->
            IF n.es = <<>> THEN <<>>
            ELSE IF Len(n.es) = 1 THEN M(n.n, s, n.es[1])
            ELSE M(Each(n.n, SubSeq(n.es, 1, Len(n.es) \div 2)), s, i)
                 \o M(Each(n.n, SubSeq(n.es, Len(n.es) \div 2 + 1, Len(n.es))), s, i)
      [] n.t = "alt" ->
            IF n.ns = <<>> THEN <<>>
            ELSE Dedup(M(Head(n.ns), s, i) \o M(Alt(Tail(n.ns)), s, i))
      [] n.t = "rep" ->
            IF n.n.t = "cls" THEN MRepCls(n, s, i)
            ELSE LET rest == [n EXCEPT !.lo = IF n.lo > 0 THEN n.lo - 1 ELSE 0,
                                       !.hi = IF n.hi < 0 THEN n.hi ELSE n.hi - 1]
                     more == IF n.hi = 0 THEN <<>>
                             ELSE M(Each(rest, SelectSeq(M(n.n, s, i), LAMBDA e : e > i)), s, i)
                 IN Dedup(IF n.lo > 0 THEN more
                          ELSE IF n.greedy THEN more \o <<i>>
                          ELSE <<i>> \o more)
      [] n.t = "bol" -> IF i = 1 \/ s[i - 1] = "\n" THEN <<i>> ELSE <<>>
      [] n.t = "eol" -> IF i = Len(s) + 1 \/ s[i] = "\n" THEN <<i>> ELSE <<>>
      [] n.t = "wordb" -> IF (i > 1 /\ IsWord(s[i - 1])) # (i <= Len(s) /\ IsWord(s[i])) THEN <<i>> ELSE <<>>

\* A pattern with one group is <<before, group, after>>.  GroupAt is the span
\* <<from, to>> (to exclusive) of the group in the first match that starts at
\* position i, <<>> when the pattern does not match there.
RECURSIVE FirstGroup(_, _, _, _)
FirstGroup(pat, s, from, tos) ==
    IF tos = <<>> THEN <<>>
    ELSE IF M(pat[3], s, Head(tos)) # <<>> THEN <<from, Head(tos)>>
    ELSE FirstGroup(pat, s, from, Tail(tos))

RECURSIVE FirstFrom(_, _, _)
FirstFrom(pat, s, froms) ==
    IF froms = <<>> THEN <<>>
    ELSE FirstOr(FirstGroup(pat, s, Head(froms), M(pat[2], s, Head(froms))), FirstFrom(pat, s, Tail(froms)))

GroupAt(pat, s, i) == FirstFrom(pat, s, M(pat[1], s, i))

\* The group's span in the leftmost match that starts in lo..hi.
RECURSIVE SearchIn(_, _, _, _)
SearchIn(pat, s, lo, hi) ==
    IF lo > hi THEN <<>>
    ELSE IF lo = hi THEN GroupAt(pat, s, lo)
    ELSE FirstOr(SearchIn(pat, s, lo, (lo + hi) \div 2), SearchIn(pat, s, (lo + hi) \div 2 + 1, hi))

\* re.search from position start on.
SearchFrom(pat, s, start) == SearchIn(pat, s, start, Len(s) + 1)

Search(pat, s) == SearchFrom(pat, s, 1)

\* m.group(1) read from text, for a span found in text or in its lowered form.
Group(text, g) == SubSeq(text, g[1], g[2] - 1)

----------------------------------------------------------------------------
(* Auditor name extractor *)

\* AUDITOR_NORMALIZATION, in the dict's insertion order: <<raw, normalized>>.
AUDITOR_NORMALIZATION ==
    << <<<<"p","r","i","c","e","w","a","t","e","r","h","o","u","s","e","c","o","o","p","e","r","s">>, <<"P","w","C">>>>,
       <<<<"p","w","c">>, <<"P","w","C">>>>,
       <<<<"e","r","n","s","t"," ","&"," ","y","o","u","n","g">>, <<"E","Y">>>>,
       <<<<"e","r","n","s","t"," ","a","n","d"," ","y","o","u","n","g">>, <<"E","Y">>>>,
       <<<<"e","y">>, <<"E","Y">>>>,
       <<<<"k","p","m","g">>, <<"K","P","M","G">>>>,
       <<<<"d","e","l","o","i","t","t","e">>, <<"D","e","l","o","i","t","t","e">>>>,
       <<<<"b","d","o">>, <<"B","D","O">>>>,
       <<<<"g","r","a","n","t"," ","t","h","o","r","n","t","o","n">>, <<"G","r","a","n","t"," ","T","h","o","r","n","t","o","n">>>>,
       <<<<"m","a","z","a","r","s">>, <<"M","a","z","a","r","s">>>>,
       <<<<"r","s","m">>, <<"R","S","M">>>> >>

\* The indices of the aliases that occur in low.
AliasHits(low) == {i \in 1..Len(AUDITOR_NORMALIZATION) : Contains(low, AUDITOR_NORMALIZATION[i][1])}

\* The loop of normalize_auditor_name over the aliases, on the cleaned name.
NormalizedOr(found, cleaned) == IF found # {} THEN AUDITOR_NORMALIZATION[Least(found)][2] ELSE cleaned

NormalizeCleaned(cleaned) == NormalizedOr(AliasHits(str_lower(cleaned)), cleaned)

normalize_auditor_name(name) ==
    NormalizeCleaned(strip(collapse_ws(replace_nbsp(name)), {" ", ",", ".", ";", ":", "-"}))

bad_hints == {<<"c","o","n","s","o","l","i","d","a","t","e","d"," ","f","i","n","a","n","c","i","a","l"," ","s","t","a","t","e","m","e","n","t","s">>, <<"c","l","i","m","a","t","e","-","r","e","l","a","t","e","d">>, <<"n","o","t","e"," ">>, <<"c","o","n","t","e","n","t","s">>, <<"d","i","r","e","c","t","o","r","s">>, <<"s","t","a","t","e","m","e","n","t">>}

legal_suffix == {<<" ","l","l","p">>, <<" ","l","t","d">>, <<" ","l","i","m","i","t","e","d">>, <<" ","p","l","c">>}

MaxFirmNameLen == 80

\* _is_plausible_audit_firm on low = name.lower().strip()
PlausibleLow(low) ==
    IF low = <<>> THEN FALSE
    ELSE IF Len(low) > MaxFirmNameLen THEN FALSE
    ELSE IF \E b \in bad_hints : Contains(low, b) THEN FALSE
    ELSE IF AliasHits(low) # {} THEN TRUE
    ELSE \E x \in legal_suffix : EndsWith(low, x)

is_plausible_audit_firm(name) == PlausibleLow(strip(str_lower(name), WhiteSpace))

\* ([A-Z][A-Za-z&,\.\- '\(\)]{2,120}) under (?i)
FirmNameGroup == Cat(<<Cls(LetterSet), Rep(Cls(LetterSet \cup {"&", ",", ".", "-", " ", "'", "(", ")"}), 2, 120)>>)

\* The three structural patterns of extract_external_auditor, in their order.
auditor_patterns ==
    << \* (?is)independent auditor(?:s)?(?:'|{rsquo}) report[^\n]{0,120}\n([^\n]{2,120})
       << Cat(<<Lit(<<"i","n","d","e","p","e","n","d","e","n","t"," ","a","u","d","i","t","o","r">>), Opt(Lit(<<"s">>)), Alt(<<Lit(<<"'">>), Lit(<<"{rsquo}">>)>>),
                Lit(<<" ","r","e","p","o","r","t">>), Rep(NotCls({"\n"}), 0, 120), Lit(<<"\n">>)>>),
          Rep(NotCls({"\n"}), 2, 120),
          Cat(<<>>) >>,
       \* (?is)(?:signed for and on behalf of|for and on behalf of)\s*\n?\s*(name)
       << Cat(<<Alt(<<Lit(<<"s","i","g","n","e","d"," ","f","o","r"," ","a","n","d"," ","o","n"," ","b","e","h","a","l","f"," ","o","f">>), Lit(<<"f","o","r"," ","a","n","d"," ","o","n"," ","b","e","h","a","l","f"," ","o","f">>)>>),
                Star(SpaceCls), Opt(Lit(<<"\n">>)), Star(SpaceCls)>>),
          FirmNameGroup,
          Cat(<<>>) >>,
       \* (?im)^\s*auditor(?:s)?\s*[:\-]\s*(name)\s*$
       << Cat(<<Bol, Star(SpaceCls), Lit(<<"a","u","d","i","t","o","r">>), Opt(Lit(<<"s">>)), Star(SpaceCls),
                Cls({":", "-"}), Star(SpaceCls)>>),
          FirmNameGroup,
          Cat(<<Star(SpaceCls), Eol>>) >> >>

NearWindow == 140

\* The aliases that occur in the text with an audit word around their first
\* occurrence: lower[max(0, idx - 140): idx + 140].
NearSlice(low, idx) == SubSeq(low, Max(1, idx - NearWindow), Min(Len(low), idx + NearWindow - 1))

HasAuditWord(near) ==
    Contains(near, <<"a","u","d","i","t","o","r">>) \/ Contains(near, <<"a","u","d","i","t"," ","r","e","p","o","r","t">>) \/ Contains(near, <<"i","n","d","e","p","e","n","d","e","n","t">>)

NearAliasHits(low) ==
    {i \in AliasHits(low) : HasAuditWord(NearSlice(low, Find(low, AUDITOR_NORMALIZATION[i][1])))}

\* The first pattern, from pattern n on, whose first match gives a plausible
\* firm name: that name, <<>> when there is none.
\* candidate if _is_plausible_audit_firm(candidate)
PlausibleOrNone(candidate) == IF is_plausible_audit_firm(candidate) THEN candidate ELSE <<>>

\* The candidate of one pattern's match g, when it is plausible.
CandidateAt(compact, g) ==
    IF g = <<>> THEN <<>> ELSE PlausibleOrNone(normalize_auditor_name(Group(compact, g)))

RECURSIVE StructuralAuditor(_, _, _)
StructuralAuditor(n, compact, low) ==
    IF n > Len(auditor_patterns) THEN <<>>
    ELSE FirstOr(CandidateAt(compact, Search(auditor_patterns[n], low)), StructuralAuditor(n + 1, compact, low))

\* The three returns of extract_external_auditor.
AuditorResult(structural, near) ==
    IF structural # <<>> THEN [auditor |-> structural, confidence |-> "high"]
    ELSE IF near # {} THEN [auditor |-> AUDITOR_NORMALIZATION[Least(near)][2], confidence |-> "medium"]
    ELSE [auditor |-> <<>>, confidence |-> "low"]

AuditorOfCompact(compact, low) == AuditorResult(StructuralAuditor(1, compact, low), NearAliasHits(low))

extract_external_auditor(text) == AuditorOfCompact(replace_nbsp(text), str_lower(replace_nbsp(text)))

----------------------------------------------------------------------------
(* Audit fee extractor *)

\* A pattern without a group counts as its own group.
Whole(n) == <<Cat(<<>>), n, Cat(<<>>)>>

\* \(?\d[\d,]*(?:\.\d+)?\)?
NumberNode == Cat(<<Opt(Lit(<<"(">>)), DigitCls, Star(Cls(DigitSet \cup {","})),
                    Opt(Cat(<<Lit(<<".">>), Plus(DigitCls)>>)), Opt(Lit(<<")">>))>>)

\* The token with the opening bracket dropped.
BracketDropped(kept) == SelectSeq(kept, LAMBDA c : c # "(")

\* token.replace(",", "").replace("(", "-").replace(")", "").strip()
BracketToMinus(kept) == SubSeq([i \in 1..Len(kept) |-> IF kept[i] = "(" THEN "-" ELSE kept[i]], 1, Len(kept))

clean_number(s) == BracketToMinus(SelectSeq(s, LAMBDA c : c \notin {",", ")"}))

\* _extract_number_tokens(s)[start:]: the tokens of the matches of re.finditer
\* from position start on.
RECURSIVE NumberTokensFrom(_, _), NumberTokensAt(_, _)
NumberTokensFrom(s, start) == NumberTokensAt(s, SearchFrom(Whole(NumberNode), s, start))

\* The token of the match g, when it is not empty, and the tokens after it.
NumberTokensAt(s, g) ==
    IF g = <<>> THEN <<>>
    ELSE NonEmpty(strip(clean_number(Group(s, g)), WhiteSpace)) \o NumberTokensFrom(s, g[2])

extract_number_tokens(s) == NumberTokensFrom(s, 1)

fee_row_primary ==
    {<<"a","u","d","i","t"," ","o","f"," ","t","h","e">>, <<"a","u","d","i","t"," ","o","f"," ","g","r","o","u","p"," ","a","c","c","o","u","n","t","s">>, <<"a","u","d","i","t"," ","o","f"," ","t","h","e"," ","c","o","m","p","a","n","y">>, <<"a","u","d","i","t"," ","o","f"," ","f","i","n","a","n","c","i","a","l"," ","s","t","a","t","e","m","e","n","t","s">>,
     <<"a","u","d","i","t"," ","o","f"," ","t","h","e"," ","a","n","n","u","a","l"," ","a","c","c","o","u","n","t","s">>, <<"f","e","e","s"," ","p","a","y","a","b","l","e"," ","t","o"," ","t","h","e"," ","c","o","m","p","a","n","y">>, <<"f","e","e","s"," ","p","a","y","a","b","l","e"," ","t","o"," ","t","h","e"," ","g","r","o","u","p","'","s"," ","a","u","d","i","t","o","r">>,
     <<"s","t","a","t","u","t","o","r","y"," ","a","u","d","i","t">>}

fee_row_exclude == {<<"o","t","h","e","r"," ","s","e","r","v","i","c","e","s">>, <<"o","t","h","e","r"," ","a","s","s","u","r","a","n","c","e">>, <<"t","a","x">>, <<"n","o","n","-","a","u","d","i","t">>, <<"s","u","b","s","i","d","i","a","r","i","e","s">>, <<"p","e","n","s","i","o","n">>, <<"t","o","t","a","l">>}

FeeRowLow(low) ==
    (\E p \in fee_row_primary : Contains(low, p)) /\ ~(\E e \in fee_row_exclude : Contains(low, e))

is_fee_row(line) == FeeRowLow(str_lower(line))

\* [ln.strip() for ln in lines if ln.strip()]
stripped_lines(ls) == SelectSeq([i \in 1..Len(ls) |-> strip(ls[i], WhiteSpace)], LAMBDA ln : ln # <<>>)

FeeHeaderLow(low) ==
    Contains(low, <<"a","u","d","i","t","o","r">>) /\ (Contains(low, <<"r","e","m","u","n","e","r","a","t","i","o","n">>) \/ Contains(low, <<"f","e","e","s"," ","p","a","y","a","b","l","e">>))

is_fee_header(ln) == FeeHeaderLow(str_lower(ln))

FeeWindow == 40

\* The first number of the first fee row with a number among the lines ls,
\* <<>> when there is none.
\* nums[0] if nums
FirstToken(nums) == IF nums # <<>> THEN nums[1] ELSE <<>>

\* The first number of the line when it is a fee row with a number.
FeeRowNumber(ln) == IF is_fee_row(ln) THEN FirstToken(extract_number_tokens(ln)) ELSE <<>>

RowNumbers(ls) == SelectSeq([i \in 1..Len(ls) |-> FeeRowNumber(ls[i])], LAMBDA t : t # <<>>)

FirstFeeRowNumber(ls) == FirstToken(RowNumbers(ls))

\* window[i] + " " + window[i + 1] for i in range(0, max(0, len(window) - 1))
MergedPairs(window) == [i \in 1..Max(0, Len(window) - 1) |-> window[i] \o <<" ">> \o window[i + 1]]

\* The loop over header_idx from the k-th line on: the first header whose
\* window, or whose window of merged pairs, holds a fee row with a number.
\* The window's own lines are tried before its merged pairs.
WindowFee(window) == FirstFeeRowNumber(window \o MergedPairs(window))

\* What the window of each header gives, in the order of the headers.
WindowFees(lines, k) ==
    SelectSeq([i \in 1..Len(lines) |->
                  IF i >= k /\ is_fee_header(lines[i])
                  THEN WindowFee(SubSeq(lines, i, Min(Len(lines), i + FeeWindow - 1)))
                  ELSE <<>>],
              LAMBDA t : t # <<>>)

HeaderFee(lines, k) == FirstToken(WindowFees(lines, k))

\* ([{pound}${euro}]?\s*\(?\d[\d,]*(?:\.\d+)?\)?)
AmountGroup == Cat(<<Opt(Cls({"{pound}", "$", "{euro}"})), Star(SpaceCls), NumberNode>>)

\* sentence_patterns, under (?i)
sentence_patterns ==
    << \* fees?\s+payable\s+to\s+the\s+(?:group'?s\s+)?(?:external\s+)?auditor[^\n\r]{0,120}?audit[^\n\r]{0,120}?accounts?[^\n\r]{0,60}?(amount)
       << Cat(<<Lit(<<"f","e","e">>), Opt(Lit(<<"s">>)), Plus(SpaceCls), Lit(<<"p","a","y","a","b","l","e">>), Plus(SpaceCls), Lit(<<"t","o">>),
                Plus(SpaceCls), Lit(<<"t","h","e">>), Plus(SpaceCls),
                Opt(Cat(<<Lit(<<"g","r","o","u","p">>), Opt(Lit(<<"'">>)), Lit(<<"s">>), Plus(SpaceCls)>>)),
                Opt(Cat(<<Lit(<<"e","x","t","e","r","n","a","l">>), Plus(SpaceCls)>>)),
                Lit(<<"a","u","d","i","t","o","r">>), RepLazy(NotNewlineCls, 0, 120), Lit(<<"a","u","d","i","t">>), RepLazy(NotNewlineCls, 0, 120),
                Lit(<<"a","c","c","o","u","n","t">>), Opt(Lit(<<"s">>)), RepLazy(NotNewlineCls, 0, 60)>>),
          AmountGroup, Cat(<<>>) >>,
       \* audit(?:or)?(?:s)?\s+(?:fee|fees|remuneration)[^\n\r]{0,120}?(amount)
       << Cat(<<Lit(<<"a","u","d","i","t">>), Opt(Lit(<<"o","r">>)), Opt(Lit(<<"s">>)), Plus(SpaceCls),
                Alt(<<Lit(<<"f","e","e">>), Lit(<<"f","e","e","s">>), Lit(<<"r","e","m","u","n","e","r","a","t","i","o","n">>)>>), RepLazy(NotNewlineCls, 0, 120)>>),
          AmountGroup, Cat(<<>>) >>,
       \* statutory\s+audit[^\n\r]{0,100}?(amount)
       << Cat(<<Lit(<<"s","t","a","t","u","t","o","r","y">>), Plus(SpaceCls), Lit(<<"a","u","d","i","t">>), RepLazy(NotNewlineCls, 0, 100)>>),
          AmountGroup, Cat(<<>>) >> >>

\* The amount of a sentence match: the token without commas and brackets,
\* re.sub(r"^[{pound}${euro}]\s*", "", token), then the first -?\d+(?:\.\d+)?
\* re.sub(r"^[{pound}${euro}]\s*", "", token)
StripCurrencySign(token) ==
    IF token # <<>> /\ Head(token) \in {"{pound}", "$", "{euro}"} THEN lstrip(Tail(token), WhiteSpace) ELSE token

\* m.group(0) if m else None
GroupOrNone(s, g) == IF g = <<>> THEN <<>> ELSE Group(s, g)

\* re.search(r"-?\d+(?:\.\d+)?", bare)
FirstNumber(bare) ==
    GroupOrNone(bare, Search(Whole(Cat(<<Opt(Lit(<<"-">>)), Plus(DigitCls), Opt(Cat(<<Lit(<<".">>), Plus(DigitCls)>>))>>)), bare))

sentence_number(amount) == FirstNumber(StripCurrencySign(strip(clean_number(amount), WhiteSpace)))

\* The number of one sentence pattern's match g.
SentenceAt(text, g) == IF g = <<>> THEN <<>> ELSE sentence_number(Group(text, g))

RECURSIVE SentenceFee(_, _, _)
SentenceFee(n, text, low) ==
    IF n > Len(sentence_patterns) THEN <<>>
    ELSE FirstOr(SentenceAt(text, Search(sentence_patterns[n], low)), SentenceFee(n + 1, text, low))

\* The returns of extract_audit_fee.
FeeResult(header, row, sentence) ==
    IF header # <<>> THEN [fee |-> header, method |-> "table"]
    ELSE IF row # <<>> THEN [fee |-> row, method |-> "table"]
    ELSE IF sentence # <<>> THEN [fee |-> sentence, method |-> "text"]
    ELSE [fee |-> <<>>, method |-> "none"]

FeeOfLines(lines, text) ==
    FeeResult(HeaderFee(lines, 1), FirstFeeRowNumber(lines), SentenceFee(1, text, str_lower(text)))

extract_audit_fee(text) == FeeOfLines(stripped_lines(splitlines(text)), text)

----------------------------------------------------------------------------
(* Currency and unit detector, year resolver *)

Matches(n, s) == Search(Whole(n), s) # <<>>

\* \bgbp\b|{pound}|pounds sterling,  \busd\b|\$,  \beur\b|{euro}
currency_patterns ==
    << <<Alt(<<Cat(<<WordB, Lit(<<"g","b","p">>), WordB>>), Lit(<<"{pound}">>), Lit(<<"p","o","u","n","d","s"," ","s","t","e","r","l","i","n","g">>)>>), "GBP">>,
       <<Alt(<<Cat(<<WordB, Lit(<<"u","s","d">>), WordB>>), Lit(<<"$">>)>>), "USD">>,
       <<Alt(<<Cat(<<WordB, Lit(<<"e","u","r">>), WordB>>), Lit(<<"{euro}">>)>>), "EUR">> >>

\* unit_patterns, under (?i)
unit_patterns ==
    << \* ({pound}\s*['{rsquo}]?\s*000|000s|in thousands|thousand)
       <<Alt(<<Cat(<<Lit(<<"{pound}">>), Star(SpaceCls), Opt(Cls({"'", "{rsquo}"})), Star(SpaceCls), Lit(<<"0","0","0">>)>>),
               Lit(<<"0","0","0","s">>), Lit(<<"i","n"," ","t","h","o","u","s","a","n","d","s">>), Lit(<<"t","h","o","u","s","a","n","d">>)>>), "thousand">>,
       \* ({pound}m|us\$m|{euro}m|in millions|million)
       <<Alt(<<Lit(<<"{pound}","m">>), Lit(<<"u","s","$","m">>), Lit(<<"{euro}","m">>), Lit(<<"i","n"," ","m","i","l","l","i","o","n","s">>), Lit(<<"m","i","l","l","i","o","n">>)>>), "million">>,
       \* (billion|bn)
       <<Alt(<<Lit(<<"b","i","l","l","i","o","n">>), Lit(<<"b","n">>)>>), "billion">> >>

\* The tag of the first pattern of ps, from the n-th on, that matches s.
RECURSIVE FirstTag(_, _, _)
FirstTag(ps, n, s) ==
    IF n > Len(ps) THEN ""
    ELSE IF Matches(ps[n][1], s) THEN ps[n][2]
    ELSE FirstTag(ps, n + 1, s)

CurrencyAndUnitLow(low) ==
    [currency |-> FirstTag(currency_patterns, 1, low), unit |-> FirstTag(unit_patterns, 1, low)]

detect_currency_and_unit(text) == CurrencyAndUnitLow(str_lower(text))

\* \b(20\d{2})\b
YearGroup == Cat(<<Lit(<<"2","0">>), Rep(DigitCls, 2, 2)>>)

MaxYearGap == 40

\* The two patterns of parse_year on the text, under (?i):
\* for the year ended[^\n\r]{0,40}\b(20\d{2})\b and year ended[^\n\r]{0,40}\b(20\d{2})\b
year_patterns ==
    << << Cat(<<Lit(<<"f","o","r"," ","t","h","e"," ","y","e","a","r"," ","e","n","d","e","d">>), Rep(NotNewlineCls, 0, MaxYearGap), WordB>>), YearGroup, WordB >>,
       << Cat(<<Lit(<<"y","e","a","r"," ","e","n","d","e","d">>), Rep(NotNewlineCls, 0, MaxYearGap), WordB>>), YearGroup, WordB >> >>

\* The year of the first of the patterns ps, from the n-th on, that matches.
RECURSIVE FirstYear(_, _, _, _)
FirstYear(ps, n, text, low) ==
    IF n > Len(ps) THEN <<>>
    ELSE FirstOr(GroupOrNone(text, Search(ps[n], low)), FirstYear(ps, n + 1, text, low))

parse_year(date, text) ==
    FirstOr(FirstYear(year_patterns, 1, text, str_lower(text)), FirstYear(<< <<WordB, YearGroup, WordB>> >>, 1, date, date))

----------------------------------------------------------------------------
(* Aggregation: fee normalisation, continuous tenure, the shortlist *)

\* The characters of the model's keys in the order of their code points.
CodeOrder ==
    <<" ","'","(",")",",","-",".","0","1","2","3","4","5","6","7","8","9",":","A","B","C","D","E","F","G","H","I","J","K","L","M","N","O","P","Q","R","S","T","U","V","W","X","Y","Z","_","a","b","c","d","e","f","g","h","i","j","k","l","m","n","o","p","q","r","s","t","u","v","w","x","y","z">>

CodeTable == [c \in {CodeOrder[k] : k \in 1..Len(CodeOrder)} |-> CHOOSE k \in 1..Len(CodeOrder) : CodeOrder[k] = c]

Code(c) == CodeTable[c]

\* a < b for two str, as Python compares them: by the first character that
\* differs, a proper prefix first.
StrLess(a, b) ==
    \E k \in 1..(Len(b)) :
        /\ \A j \in 1..(k - 1) : j <= Len(a) /\ a[j] = b[j]
        /\ k - 1 <= Len(a)
        /\ (k = Len(a) + 1 \/ Code(a[k]) < Code(b[k]))

\* A decimal number: its sign, the digits of its whole part without leading
\* zeros and the digits of its fraction without trailing zeros.  ok is FALSE
\* for None.
None == [ok |-> FALSE, neg |-> FALSE, ip |-> <<>>, fp |-> <<>>]

StripZerosLeft(ds) == lstrip(ds, {"0"})

StripZerosRight(ds) == rstrip(ds, {"0"})

Decimal(neg, ip, fp) == [ok |-> TRUE, neg |-> neg, ip |-> StripZerosLeft(ip), fp |-> StripZerosRight(fp)]

AllDigits(ds) == \A k \in 1..Len(ds) : IsDigit(ds[k])

\* The digits around the decimal point, at position dot (Len + 1: no point).
DecimalAt(neg, body, dot) ==
    IF AllDigits(SubSeq(body, 1, dot - 1)) /\ AllDigits(SubSeq(body, dot + 1, Len(body))) /\ Len(body) > (IF dot <= Len(body) THEN 1 ELSE 0)
    THEN Decimal(neg, SubSeq(body, 1, dot - 1), SubSeq(body, dot + 1, Len(body)))
    ELSE None

Unsigned(neg, body) == DecimalAt(neg, body, RunEnd(body, 1, {"."}, TRUE))

Signed(t) ==
    IF t # <<>> /\ Head(t) \in {"-", "+"} THEN Unsigned(Head(t) = "-", Tail(t)) ELSE Unsigned(FALSE, t)

\* float(value) for the decimal notation: blanks around, a sign, digits with
\* at most one decimal point; None for the ValueError.
float(value) == Signed(strip(value, WhiteSpace))

Zeros(k) == [i \in 1..k |-> "0"]

\* d * 10^k
ShiftPoint(d, fpad, k) == Decimal(d.neg, d.ip \o SubSeq(fpad, 1, k), SubSeq(fpad, k + 1, Len(fpad)))

Times10(d, k) == ShiftPoint(d, d.fp \o Zeros(k), k)

\* a < b for two decimals that are not negative.
MagnitudeLess(a, b) ==
    \/ Len(a.ip) < Len(b.ip)
    \/ Len(a.ip) = Len(b.ip) /\ StrLess(a.ip, b.ip)
    \/ a.ip = b.ip /\ StrLess(a.fp, b.fp)

\* gbp > 0
IsPositive(d) == d.ok /\ ~d.neg /\ (d.ip # <<>> \/ d.fp # <<>>)

\* The exponents with a zero short in the million.
UnitExponentShort(unit) ==
    IF unit = "thousand" THEN 3 ELSE IF unit = "million" THEN 5 ELSE IF unit = "billion" THEN 9 ELSE 0

\* The exponent of the unit's multiplier.
UnitExponent(unit) ==
    IF unit = "thousand" THEN 3 ELSE IF unit = "million" THEN 6 ELSE IF unit = "billion" THEN 9 ELSE 0

\* ScaledOrNone without the look at the currency.
ScaledAnyCurrency(v, unit, cur) == IF ~v.ok THEN None ELSE Times10(v, UnitExponent(unit))

ScaledOrNone(v, unit, cur) ==
    IF ~v.ok THEN None
    ELSE IF cur # "" /\ cur # "GBP" THEN None
    ELSE Times10(v, UnitExponent(unit))

fee_to_gbp_numeric(value, unit, cur) ==
    IF value = <<>> THEN None ELSE ScaledOrNone(float(value), unit, cur)

\* sorted(xs, key=..., reverse=True) for the keys' ranks ks: the greater key
\* first, equal keys in the order of xs.
Position(ks, i) == 1 + Cardinality({j \in 1..Len(ks) : ks[j] > ks[i] \/ (ks[j] = ks[i] /\ j < i)})

SortedDesc(xs, ks) == [p \in 1..Len(xs) |-> xs[CHOOSE i \in 1..Len(xs) : Position(ks, i) = p]]

\* The rank of each str among ss: the number of the smaller ones.
StrRanks(ss) == [i \in 1..Len(ss) |-> Cardinality({j \in 1..Len(ss) : StrLess(ss[j], ss[i])})]

Years(rows) == [i \in 1..Len(rows) |-> rows[i].year]

\* The loop of compute_continuous_tenure from the k-th record on.
RECURSIVE CountRunAll(_, _, _), CountRun(_, _, _)
CountRunAll(ordered, a, k) ==
    IF k > Len(ordered) THEN 0
    ELSE (IF ordered[k].external_auditor = a THEN 1 ELSE 0) + CountRunAll(ordered, a, k + 1)

CountRun(ordered, a, k) ==
    IF k > Len(ordered) \/ ordered[k].external_auditor # a THEN 0 ELSE 1 + CountRun(ordered, a, k + 1)

TenureOfOrdered(ordered) ==
    IF ordered[1].external_auditor = <<>> THEN [auditor |-> <<>>, tenure |-> 0]
    ELSE [auditor |-> ordered[1].external_auditor, tenure |-> CountRun(ordered, ordered[1].external_auditor, 1)]

AscendingByYear(rows) == SortedDesc(rows, [i \in 1..Len(rows) |-> 0 - StrRanks(Years(rows))[i]])

OrderedByYear(rows) == SortedDesc(rows, StrRanks(Years(rows)))

compute_continuous_tenure(rows) ==
    IF rows = <<>> THEN [auditor |-> <<>>, tenure |-> 0] ELSE TenureOfOrdered(OrderedByYear(rows))

\* math.log1p(fee) * 5.0 in units of 1/100000, for the fees of the model: <<whole, fraction, value>>.
Log1pTimes5Table ==
    << <<<<"1">>, <<>>, 346574>>,
       <<<<"1">>, <<"2">>, 394229>>,
       <<<<"1">>, <<"5">>, 458145>>,
       <<<<"2">>, <<>>, 549306>>,
       <<<<"3","0","0">>, <<>>, 2853555>>,
       <<<<"1","0","0","0">>, <<>>, 3454377>>,
       <<<<"1","2","0","0">>, <<>>, 3545455>>,
       <<<<"1","5","0","0">>, <<>>, 3656943>>,
       <<<<"2","0","0","0">>, <<>>, 3800701>>,
       <<<<"1","2","5","0","0","0">>, <<>>, 5868039>>,
       <<<<"3","0","0","0","0","0">>, <<>>, 6305771>>,
       <<<<"9","9","9","9","9","9">>, <<>>, 6907755>>,
       <<<<"1","0","0","0","0","0","0">>, <<>>, 6907756>>,
       <<<<"1","2","0","0","0","0","0">>, <<>>, 6998916>>,
       <<<<"1","5","0","0","0","0","0">>, <<>>, 7110488>>,
       <<<<"2","0","0","0","0","0","0">>, <<>>, 7254329>>,
       <<<<"1","2","5","0","0","0","0","0","0">>, <<>>, 9321912>>,
       <<<<"3","0","0","0","0","0","0","0","0">>, <<>>, 9759647>>,
       <<<<"9","9","9","9","9","9","0","0","0">>, <<>>, 10361632>> >>

\* math.log1p(latest_fee) * 5.0, capped at 100.0, in units of 1/100000.  A
\* fee of ten digits or more is over the cap.
LookUp(table, d) == table[CHOOSE k \in 1..Len(table) : table[k][1] = d.ip /\ table[k][2] = d.fp][3]

FeeScore(latest_fee) ==
    IF ~latest_fee.ok THEN 0
    ELSE IF Len(latest_fee.ip) > 9 THEN 100 * 100000
    ELSE Min(100 * 100000, LookUp(Log1pTimes5Table, latest_fee))

\* min(100.0, tenure_years * 10.0)
TenureScore(tenure_years) == Min(100, tenure_years * 10)

\* round(0.65 * tenure_score + 0.35 * fee_score, 2), in hundredths.
PriorityScore(tenure_score, fee_score) == (65 * tenure_score * 100000 + 35 * fee_score + 50000) \div 100000

\* str(n) for n >= 0
RECURSIVE IntToStr(_)
IntToStr(n) == IF n < 10 THEN <<DigitChars[n + 1]>> ELSE IntToStr(n \div 10) \o <<DigitChars[(n % 10) + 1]>>

\* str(priority_score) for a score of so many hundredths: the shortest decimal
\* notation, with at least one decimal.
FormatScore(score) ==
    IntToStr(score \div 100) \o <<".">>
        \o (IF score % 10 = 0 THEN IntToStr((score % 100) \div 10) ELSE IntToStr((score % 100) \div 10) \o IntToStr(score % 10))

\* The digits ds of a whole number, plus one.
RECURSIVE PlusOne(_)
PlusOne(ds) ==
    IF ds = <<>> THEN <<"1">>
    ELSE IF ds[Len(ds)] = "9" THEN PlusOne(SubSeq(ds, 1, Len(ds) - 1)) \o <<"0">>
    ELSE SubSeq(ds, 1, Len(ds) - 1) \o <<DigitChars[Code(ds[Len(ds)]) - Code("0") + 2]>>

IsOdd(ds) == ds # <<>> /\ ds[Len(ds)] \in {"1", "3", "5", "7", "9"}

\* Whether the fraction rounds the whole part up: over a half, or a half
\* next to an odd whole part.
RoundsUp(d) ==
    /\ d.fp # <<>>
    /\ \/ Code(d.fp[1]) > Code("5")
       \/ d.fp[1] = "5" /\ (Len(d.fp) > 1 \/ IsOdd(d.ip))

WholeDigits(ds) == IF ds = <<>> THEN <<"0">> ELSE ds

\* f"{latest_fee:.0f}" if latest_fee is not None else ""
FormatFee(latest_fee) ==
    IF ~latest_fee.ok THEN <<>>
    ELSE (IF latest_fee.neg THEN <<"-">> ELSE <<>>)
         \o WholeDigits(IF RoundsUp(latest_fee) THEN PlusOne(latest_fee.ip) ELSE latest_fee.ip)

Million == Decimal(FALSE, <<"1","0","0","0","0","0","0">>, <<>>)

\* The status tier with > in place of >= for the tenure.
TenderStatusStrict(tenure_years, latest_fee) ==
    IF tenure_years > 8 /\ latest_fee.ok /\ ~MagnitudeLess(latest_fee, Million) THEN "hot"
    ELSE IF tenure_years > 6 THEN "watch"
    ELSE "monitor"

\* The status tier.
TenderStatus(tenure_years, latest_fee) ==
    IF tenure_years >= 8 /\ latest_fee.ok /\ ~MagnitudeLess(latest_fee, Million) THEN "hot"
    ELSE IF tenure_years >= 6 THEN "watch"
    ELSE "monitor"

\* The gbp values of the rows that are not None and positive.
FeeValues(rows) ==
    SelectSeq([i \in 1..Len(rows) |-> fee_to_gbp_numeric(rows[i].audit_fee, rows[i].fee_unit, rows[i].currency)],
              LAMBDA gbp : IsPositive(gbp))

\* The first of the values in place of the greatest.
FirstFeeValue(fee_values) == IF fee_values = <<>> THEN None ELSE fee_values[1]

\* max(fee_values) if fee_values else None
LatestFee(fee_values) ==
    IF fee_values = <<>> THEN None
    ELSE fee_values[CHOOSE i \in 1..Len(fee_values) : \A j \in 1..Len(fee_values) : ~MagnitudeLess(fee_values[i], fee_values[j])]

\* The dict appended to out.
Entry(rows, t, latest_fee) ==
    [company_number |-> rows[1].company_number,
     company |-> rows[1].company,
     current_external_auditor |-> t.auditor,
     continuous_tenure_years |-> IntToStr(t.tenure),
     latest_audit_fee_gbp |-> FormatFee(latest_fee),
     priority_score |-> FormatScore(PriorityScore(TenureScore(t.tenure), FeeScore(latest_fee))),
     tender_status |-> TenderStatus(t.tenure, latest_fee)]

EntryOf(rows) == Entry(rows, compute_continuous_tenure(rows), LatestFee(FeeValues(rows)))

\* The keys of grouped, in the order of their first rows.
GroupKeys(rows) == Dedup([i \in 1..Len(rows) |-> rows[i].company_number])

Grouped(rows, company) == SelectSeq(rows, LAMBDA r : r.company_number = company)

Entries(rows, keys) == [k \in 1..Len(keys) |-> EntryOf(Grouped(rows, keys[k]))]

\* The rank of float(priority_score) of each entry among the entries.
ScoreRanks(scores) ==
    [i \in 1..Len(scores) |-> Cardinality({j \in 1..Len(scores) : MagnitudeLess(scores[j], scores[i])})]

Scores(out) == [i \in 1..Len(out) |-> float(out[i].priority_score)]

\* out without the sort.
NotSorted(out) == out

\* out.sort(key=lambda r: float(r["priority_score"]), reverse=True)
SortedByScore(out) == SortedDesc(out, ScoreRanks(Scores(out)))

build_shortlist(rows) == SortedByScore(Entries(rows, GroupKeys(rows)))

----------------------------------------------------------------------------
----------------------------------------------------------------------------
(* main(): the per-filing pipeline *)

\* The filings one run takes, over all companies.
MaxFilings == 1

\* The companies the search returns: company_number and title.
Companies ==
    << [company_number |-> <<"C","1">>, title |-> <<"A","c","m","e"," ","p","l","c">>],
       [company_number |-> <<>>, title |-> <<"N","o"," ","n","u","m","b","e","r">>],
       [company_number |-> <<"C","2">>, title |-> <<>>] >>

\* filing.get("date") or ""
FilingDates == {<<>>, <<"2","0","2","2","-","0","6","-","3","0">>}

\* What text sampling and optical recovery can return.  Each text leaves other
\* fields empty: none, the auditor (by pattern or by alias), the fee, the
\* currency and unit, the year, or nothing at all.
SampleTexts ==
    { <<>>,
      <<"C","h","a","i","r","m","a","n"," ","s","t","a","t","e","m","e","n","t">>,
      <<"A","u","d","i","t","o","r",":"," ","D","e","l","o","i","t","t","e"," ","L","L","P">>,
      <<"K","P","M","G"," ","a","u","d","i","t"," ","r","e","p","o","r","t","\n","A","u","d","i","t"," ","f","e","e"," ","(","4","5",",","0","0","0",")">>,
      <<"A","u","d","i","t","o","r","s","'"," ","r","e","m","u","n","e","r","a","t","i","o","n","\n","A","u","d","i","t"," ","o","f"," ","t","h","e"," ","f","i","n","a","n","c","i","a","l"," ","s","t","a","t","e","m","e","n","t","s"," ","1","2","5",",","0","0","0","\n","{pound}","0","0","0">>,
      <<"U","S","$","m"," ","f","o","r"," ","t","h","e"," ","y","e","a","r"," ","e","n","d","e","d"," ","3","1"," ","M","a","r","c","h"," ","2","0","2","3">>,
      <<"A","u","d","i","t","o","r",":"," ","B","D","O"," ","L","L","P","\n","S","t","a","t","u","t","o","r","y"," ","a","u","d","i","t"," ","3","0","0","\n","E","U","R"," ","t","h","o","u","s","a","n","d">>,
      <<"I","n","d","e","p","e","n","d","e","n","t"," ","a","u","d","i","t","o","r","'","s"," ","r","e","p","o","r","t","\n","P","r","i","c","e","w","a","t","e","r","h","o","u","s","e","C","o","o","p","e","r","s"," ","L","L","P","\n","f","o","r"," ","t","h","e"," ","y","e","a","r"," ","e","n","d","e","d"," ","3","1"," ","D","e","c","e","m","b","e","r"," ","2","0","2","1","\n","S","t","a","t","u","t","o","r","y"," ","a","u","d","i","t"," ","1",".","5","\n","{pound}","m">> }

\* Lines 675-678 and 687-690: the four extractors on one text.
FieldsOf(a, fee, cu, y) ==
    [auditor |-> a.auditor, confidence |-> a.confidence, audit_fee |-> fee.fee,
     currency |-> cu.currency, fee_unit |-> cu.unit, year |-> y]

extract_fields(date, text) ==
    FieldsOf(extract_external_auditor(text), extract_audit_fee(text), detect_currency_and_unit(text),
             parse_year(date, text))

\* extract_fields, computed once for each input of the model.
FieldsTable == [x \in FilingDates \X SampleTexts |-> extract_fields(x[1], x[2])] @@ <<>>

Fields(date, text) == FieldsTable[<<date, text>>]

\* A merge that lets every optical value that is not empty replace the field.
merge_fields_overwrite(f, o) ==
    [auditor |-> IF o.auditor # <<>> THEN o.auditor ELSE f.auditor,
     confidence |-> IF o.auditor # <<>> THEN o.confidence ELSE f.confidence,
     audit_fee |-> IF o.audit_fee # <<>> THEN o.audit_fee ELSE f.audit_fee,
     currency |-> IF o.currency # "" THEN o.currency ELSE f.currency,
     fee_unit |-> IF o.fee_unit # "" THEN o.fee_unit ELSE f.fee_unit,
     year |-> IF o.year # <<>> THEN o.year ELSE f.year]

\* A merge that joins the optical fee to the fee it finds.
merge_fields_append(f, o) ==
    [auditor |-> IF o.auditor # <<>> /\ f.auditor = <<>> THEN o.auditor ELSE f.auditor,
     confidence |-> IF o.auditor # <<>> /\ f.auditor = <<>> THEN o.confidence ELSE f.confidence,
     audit_fee |-> IF o.audit_fee # <<>> THEN f.audit_fee \o o.audit_fee ELSE f.audit_fee,
     currency |-> IF o.currency # "" /\ f.currency = "" THEN o.currency ELSE f.currency,
     fee_unit |-> IF o.fee_unit # "" /\ f.fee_unit = "" THEN o.fee_unit ELSE f.fee_unit,
     year |-> IF o.year # <<>> /\ f.year = <<>> THEN o.year ELSE f.year]

\* A merge that adopts the optical auditor without its confidence.
merge_fields_stale_confidence(f, o) ==
    [auditor |-> IF o.auditor # <<>> /\ f.auditor = <<>> THEN o.auditor ELSE f.auditor,
     confidence |-> f.confidence,
     audit_fee |-> IF o.audit_fee # <<>> /\ f.audit_fee = <<>> THEN o.audit_fee ELSE f.audit_fee,
     currency |-> IF o.currency # "" /\ f.currency = "" THEN o.currency ELSE f.currency,
     fee_unit |-> IF o.fee_unit # "" /\ f.fee_unit = "" THEN o.fee_unit ELSE f.fee_unit,
     year |-> IF o.year # <<>> /\ f.year = <<>> THEN o.year ELSE f.year]

\* Lines 692-702: an optical value is adopted where the field is still empty.
merge_fields(f, o) ==
    [auditor |-> IF o.auditor # <<>> /\ f.auditor = <<>> THEN o.auditor ELSE f.auditor,
     confidence |-> IF o.auditor # <<>> /\ f.auditor = <<>> THEN o.confidence ELSE f.confidence,
     audit_fee |-> IF o.audit_fee # <<>> /\ f.audit_fee = <<>> THEN o.audit_fee ELSE f.audit_fee,
     currency |-> IF o.currency # "" /\ f.currency = "" THEN o.currency ELSE f.currency,
     fee_unit |-> IF o.fee_unit # "" /\ f.fee_unit = "" THEN o.fee_unit ELSE f.fee_unit,
     year |-> IF o.year # <<>> /\ f.year = <<>> THEN o.year ELSE f.year]

\* The optical results assigned to the fields, whatever the text.
ocr_merge_assign(f, date, text) == Fields(date, text)

\* Lines 686-702: the merge of one optical text into the fields f.
ocr_merge(f, date, text) == IF text # <<>> THEN merge_fields(f, Fields(date, text)) ELSE f

\* A trigger that also asks for the year.
NeedOcrWithYear(enabled, f) ==
    enabled /\ (f.auditor = <<>> \/ f.audit_fee = <<>> \/ f.currency = "" \/ f.fee_unit = "" \/ f.year = <<>>)

\* Lines 681-683
NeedOcr(enabled, f) ==
    enabled /\ (f.auditor = <<>> \/ f.audit_fee = <<>> \/ f.currency = "" \/ f.fee_unit = "")

CurrentFields ==
    [auditor |-> auditor, confidence |-> confidence, audit_fee |-> audit_fee,
     currency |-> currency, fee_unit |-> fee_unit, year |-> year]

NoFields ==
    [auditor |-> <<>>, confidence |-> "", audit_fee |-> <<>>, currency |-> "", fee_unit |-> "", year |-> <<>>]

SetFields(f) ==
    /\ auditor' = f.auditor
    /\ confidence' = f.confidence
    /\ audit_fee' = f.audit_fee
    /\ currency' = f.currency
    /\ fee_unit' = f.fee_unit
    /\ year' = f.year

company_number == IF c_idx = 0 THEN <<>> ELSE Companies[c_idx].company_number

\* str(c.get("title") or company_number)
company_name == FirstOr(Companies[c_idx].title, company_number)

\* download_dir / f"{company_number}_{filing_date}.pdf", below the directory
pdf_path == company_number \o <<"_">> \o filing_date \o <<".","p","d","f">>

\* ExtractedRow(...).as_dict() for the fields f
RowOf(f) ==
    [company_number |-> company_number, company |-> company_name, year |-> f.year,
     external_auditor |-> f.auditor, audit_fee |-> f.audit_fee, fee_unit |-> f.fee_unit,
     currency |-> f.currency, filing_date |-> filing_date, confidence |-> f.confidence,
     pdf_path |-> pdf_path]

ExtractedRow == RowOf(CurrentFields)

\* a < b for the keys (company_number, year) of two rows
KeyLess(a, b) ==
    \/ StrLess(a.company_number, b.company_number)
    \/ a.company_number = b.company_number /\ StrLess(a.year, b.year)

KeyRanks(rows) == [i \in 1..Len(rows) |-> Cardinality({j \in 1..Len(rows) : KeyLess(rows[j], rows[i])})]

\* Line 718
SortedHistory(rows) == SortedDesc(rows, KeyRanks(rows))

InitMain ==
    /\ enable_ocr_fallback \in BOOLEAN
    /\ pc = "loop"
    /\ c_idx = 0
    /\ n_filings = 0
    /\ filing_date = <<>>
    /\ auditor = <<>> /\ confidence = "" /\ audit_fee = <<>> /\ currency = "" /\ fee_unit = "" /\ year = <<>>
    /\ ocr_text = <<>>
    /\ primary = NoFields
    /\ ocr_runs = 0
    /\ history_rows = <<>>
    /\ shortlist_rows = <<>>
    /\ IdleOcr
    /\ IdleTenure
    /\ IdleCall

\* Line 649: the company loop moves on.
NextCompany ==
    /\ pc = "loop"
    /\ c_idx < Len(Companies)
    /\ c_idx' = c_idx + 1
    /\ UNCHANGED <<callVars, ocrVars, tenureVars, enable_ocr_fallback, pc, n_filings, filing_date, auditor, confidence, audit_fee, currency,
                   fee_unit, year, ocr_text, primary, ocr_runs, history_rows, shortlist_rows>>

\* A filing of the current company is there to take (a company without a
\* number is passed over, line 651).
FilingReady == pc = "loop" /\ company_number # <<>> /\ n_filings < MaxFilings

\* Lines 661-672: no document for the filing, the loop continues.
SkipFiling ==
    /\ FilingReady
    /\ n_filings' = n_filings + 1
    /\ UNCHANGED <<callVars, ocrVars, tenureVars, enable_ocr_fallback, pc, c_idx, filing_date, auditor, confidence, audit_fee, currency,
                   fee_unit, year, ocr_text, primary, ocr_runs, history_rows, shortlist_rows>>

\* Lines 661-678: the document is there; primary extraction on its sampled text.
ExtractPrimary ==
    /\ FilingReady
    /\ \E date \in FilingDates, text \in SampleTexts :
          /\ filing_date' = date
          /\ SetFields(Fields(date, text))
          /\ primary' = Fields(date, text)
    /\ n_filings' = n_filings + 1
    /\ ocr_text' = <<>>
    /\ ocr_runs' = 0
    /\ pc' = "extracted"
    /\ UNCHANGED <<callVars, ocrVars, tenureVars, enable_ocr_fallback, c_idx, history_rows, shortlist_rows>>

\* Lines 681-684 with need_ocr false: no optical recovery.
NoOcr ==
    /\ pc = "extracted"
    /\ ~NeedOcr(enable_ocr_fallback, CurrentFields)
    /\ pc' = "merged"
    /\ UNCHANGED <<callVars, ocrVars, tenureVars, enable_ocr_fallback, c_idx, n_filings, filing_date, auditor, confidence, audit_fee, currency,
                   fee_unit, year, ocr_text, primary, ocr_runs, history_rows, shortlist_rows>>

\* Lines 681-702 with need_ocr true: ocr_targeted_text returns some text, empty
\* when recovery fails, and the text is merged.
OcrFallback ==
    /\ pc = "extracted"
    /\ NeedOcr(enable_ocr_fallback, CurrentFields)
    /\ \E text \in SampleTexts :
          /\ ocr_text' = text
          /\ SetFields(ocr_merge(CurrentFields, filing_date, text))
    /\ ocr_runs' = ocr_runs + 1
    /\ pc' = "merged"
    /\ UNCHANGED <<callVars, ocrVars, tenureVars, enable_ocr_fallback, c_idx, n_filings, filing_date, primary, history_rows, shortlist_rows>>

\* Lines 704-716
EmitRow ==
    /\ pc = "merged"
    /\ history_rows' = Append(history_rows, ExtractedRow)
    /\ pc' = "loop"
    /\ UNCHANGED <<callVars, ocrVars, tenureVars, enable_ocr_fallback, c_idx, n_filings, filing_date, auditor, confidence, audit_fee, currency,
                   fee_unit, year, ocr_text, primary, ocr_runs, shortlist_rows>>

\* Lines 718-719, after the last company
Finish ==
    /\ pc = "loop"
    /\ c_idx = Len(Companies)
    /\ history_rows' = SortedHistory(history_rows)
    /\ shortlist_rows' = build_shortlist(SortedHistory(history_rows))
    /\ pc' = "done"
    /\ UNCHANGED <<callVars, ocrVars, tenureVars, enable_ocr_fallback, c_idx, n_filings, filing_date, auditor, confidence, audit_fee, currency,
                   fee_unit, year, ocr_text, primary, ocr_runs>>

NextMain == NextCompany \/ SkipFiling \/ ExtractPrimary \/ NoOcr \/ OcrFallback \/ EmitRow \/ Finish

Spec == InitMain /\ [][NextMain]_vars


----------------------------------------------------------------------------
(* The optical-fallback merge of main() *)

\* A record of the current filing has been emitted and is the last row.
Emitted == pc = "loop" /\ history_rows # <<>>

LastRow == history_rows[Len(history_rows)]

\* What the extractors find in the optical text of the current filing.
Optical == Fields(filing_date, ocr_text)

\* C1: a field that primary extraction filled has the primary value in the
\* emitted record, whatever the optical text holds; the confidence differs
\* from the primary one only when the auditor was empty and the record has
\* the optical auditor with its confidence.
C1_MergeNonDestructive ==
    Emitted =>
        /\ primary.auditor # <<>> => LastRow.external_auditor = primary.auditor
        /\ primary.audit_fee # <<>> => LastRow.audit_fee = primary.audit_fee
        /\ primary.currency # "" => LastRow.currency = primary.currency
        /\ primary.fee_unit # "" => LastRow.fee_unit = primary.fee_unit
        /\ primary.year # <<>> => LastRow.year = primary.year
        /\ LastRow.confidence # primary.confidence =>
              /\ primary.auditor = <<>>
              /\ ocr_runs = 1
              /\ Optical.auditor # <<>>
              /\ LastRow.external_auditor = Optical.auditor
              /\ LastRow.confidence = Optical.confidence

\* The optical text names another auditor and another year than the primary
\* extraction found, and the record was emitted.
C1_Witness ==
    /\ Emitted
    /\ ocr_runs = 1
    /\ primary.auditor # <<>> /\ Optical.auditor # <<>> /\ Optical.auditor # primary.auditor
    /\ primary.year # <<>> /\ Optical.year # <<>> /\ Optical.year # primary.year
    /\ LastRow.external_auditor = primary.auditor

\* C2: for the fields of every primary extraction and every optical text,
\* merging the text a second time into the result of the first merge changes
\* none of auditor, confidence, fee, currency, unit and year.
C2_MergeIdempotent ==
    pc = "extracted" =>
        \A text \in SampleTexts :
            ocr_merge(ocr_merge(CurrentFields, filing_date, text), filing_date, text)
                = ocr_merge(CurrentFields, filing_date, text)

\* A merge has adopted an optical fee, and a second merge of the same text
\* leaves the fields as they are.
C2_Witness ==
    /\ pc = "merged"
    /\ ocr_runs = 1
    /\ primary.audit_fee = <<>> /\ audit_fee # <<>>
    /\ ocr_merge(CurrentFields, filing_date, ocr_text) = CurrentFields

\* C3: every record of the history has one of the three confidence tags, and
\* "low" exactly when its auditor is empty.
C3_LowIffNoAuditor ==
    \A i \in 1..Len(history_rows) :
        /\ history_rows[i].confidence \in {"high", "medium", "low"}
        /\ history_rows[i].confidence = "low" <=> history_rows[i].external_auditor = <<>>

\* A record whose auditor came from the optical text, after a primary
\* extraction without one.
C3_Witness ==
    /\ Emitted
    /\ primary.auditor = <<>> /\ primary.confidence = "low"
    /\ LastRow.external_auditor # <<>> /\ LastRow.confidence # "low"

\* The optical pass of the current filing ran and returned no text.
OcrFailed == pc = "merged" /\ ocr_runs = 1 /\ ocr_text = <<>>

\* C4: after an optical pass that returned no text the next step emits the
\* record of the filing, one row with the six fields of primary extraction,
\* and only the step that emits a record makes the history longer.
C4_EmptyOcrKeepsPrimary ==
    [][/\ OcrFailed => history_rows' = Append(history_rows, RowOf(primary)) /\ pc' = "loop"
       /\ pc # "merged" => Len(history_rows') = Len(history_rows)]_vars

\* The record of a filing whose optical pass returned no text, emitted with
\* the auditor primary extraction had found.
C4_Witness ==
    /\ Emitted
    /\ ocr_runs = 1 /\ ocr_text = <<>>
    /\ primary.auditor # <<>>
    /\ LastRow = RowOf(primary)

\* C7: when the merge step of a filing is over, the optical pass has run,
\* once, exactly if the fallback is enabled and primary extraction left the
\* auditor, the fee, the currency or the unit empty.
C7_OcrIffNeeded ==
    pc = "merged" =>
        /\ ocr_runs \in {0, 1}
        /\ ocr_runs = 1 <=>
              /\ enable_ocr_fallback
              /\ \/ primary.auditor = <<>>
                 \/ primary.audit_fee = <<>>
                 \/ primary.currency = ""
                 \/ primary.fee_unit = ""

\* The fallback is enabled, the four fields are there, the year is not, and
\* no optical pass ran.
C7_Witness ==
    /\ pc = "merged"
    /\ enable_ocr_fallback
    /\ primary.auditor # <<>> /\ primary.audit_fee # <<>> /\ primary.currency # "" /\ primary.fee_unit # ""
    /\ primary.year = <<>>
    /\ ocr_runs = 0

----------------------------------------------------------------------------
(* ocr_targeted_text(): the page targeting of optical recovery *)

\* The sparse-phase hits of one document the model looks at.
MaxHits == 2

\* The page counts of the short documents.
MaxPageCount == 21

\* doc.page_count: no page, a short document, a document of over 120 pages.
PageCounts == 0..MaxPageCount \cup {121}

\* max_pages: none, one, around the front window, the default.
Budgets == {0, 1, 13, 14, 16, 80}

\* list(range(a, b))
Range(a, b) == [i \in 1..(b - a) |-> a + i - 1]

\* sorted(S) for a set of numbers
RECURSIVE Sorted(_)
Sorted(S) == IF S = {} THEN <<>> ELSE <<Least(S)>> \o Sorted(S \ {Least(S)})

\* Lines 443-445: the pages of the sparse phase.
SparsePages(n) ==
    {p \in 0..(Min(20, n) - 1) : p % 3 = 0} \cup {p \in 0..(n - 1) : p % (IF n > 120 THEN 8 ELSE 5) = 0}

\* Lines 453-458 on low = t.lower()
IsHit(low) ==
    \/ Contains(low, <<"i","n","d","e","p","e","n","d","e","n","t"," ","a","u","d","i","t","o","r">>)
    \/ Contains(low, <<"a","u","d","i","t","o","r">>) /\ Contains(low, <<"r","e","p","o","r","t">>)
    \/ Contains(low, <<"a","u","d","i","t","o","r">>) /\ (Contains(low, <<"r","e","m","u","n","e","r","a","t","i","o","n">>) \/ Contains(low, <<"f","e","e","s"," ","p","a","y","a","b","l","e">>))
    \/ Contains(low, <<"a","u","d","i","t"," ","f","e","e">>)

\* What _ocr_page_text returns for a page of the sparse phase: nothing or a
\* text without the words, and a text with them for a page of the marked ones.
PlainTexts == <<<<>>, <<"N","o","t","e","s"," ","t","o"," ","t","h","e"," ","a","c","c","o","u","n","t","s">>>>

HitTexts == <<<<"I","N","D","E","P","E","N","D","E","N","T"," ","A","U","D","I","T","O","R">>, <<"R","e","p","o","r","t"," ","o","f"," ","t","h","e"," ","a","u","d","i","t","o","r">>, <<"A","u","d","i","t","o","r","s","'"," ","r","e","m","u","n","e","r","a","t","i","o","n">>,
              <<"f","e","e","s"," ","p","a","y","a","b","l","e"," ","t","o"," ","t","h","e"," ","a","u","d","i","t","o","r">>, <<"A","u","d","i","t"," ","f","e","e","s">>>>

SparseText(p, marked) ==
    IF p \in marked THEN HitTexts[(p % Len(HitTexts)) + 1] ELSE PlainTexts[(p % Len(PlainTexts)) + 1]

\* Lines 450-459 for each text of the model: whether it marks its page.
MarksPage ==
    [t \in {HitTexts[k] : k \in 1..Len(HitTexts)} \cup {PlainTexts[k] : k \in 1..Len(PlainTexts)} |->
        t # <<>> /\ IsHit(str_lower(t))]

\* Lines 447-459: the hits among the sparse pages, for the pages marked.
SparseHits(sparse, marked) == {p \in sparse : MarksPage[SparseText(p, marked)]}

\* The subsets of S of at most k elements.
RECURSIVE SubsetsUpTo(_, _)
SubsetsUpTo(S, k) ==
    IF k = 0 THEN {{}} ELSE SubsetsUpTo(S, k - 1) \cup {T \cup {x} : T \in SubsetsUpTo(S, k - 1), x \in S}

\* push without the look at seen.
push_again(ordered, p, n) == IF 0 <= p /\ p < n THEN Append(ordered, p) ELSE ordered

\* Lines 464-467: push(p); seen holds the pages of ordered.
push(ordered, p, n) ==
    IF 0 <= p /\ p < n /\ p \notin {ordered[k] : k \in 1..Len(ordered)} THEN Append(ordered, p) ELSE ordered

RECURSIVE PushAll(_, _, _)
PushAll(ordered, ps, n) == IF ps = <<>> THEN ordered ELSE PushAll(push(ordered, Head(ps), n), Tail(ps), n)

\* Line 475: range(max(0, h - 2), min(page_count - 1, h + 2) + 1)
Neighbourhood(h, n) == Range(Max(0, h - 2), Min(n - 1, h + 2) + 1)

\* Lines 474-476: the pushes of the hits hs, in their order.
RECURSIVE PushHits(_, _, _)
PushHits(ordered, hs, n) ==
    IF hs = <<>> THEN ordered ELSE PushHits(PushAll(ordered, Neighbourhood(Head(hs), n), n), Tail(hs), n)

\* Lines 461-476: ordered
Ordered(n, hs) == PushHits(PushAll(<<>>, Range(0, Min(14, n)), n), Sorted(hs), n)

\* ordered[:max_pages] for max_pages >= 0
FirstPages(ordered, m) == SubSeq(ordered, 1, Min(m, Len(ordered)))

\* The text of a page the dense phase recognizes.
PageText(p) == <<"p","a","g","e"," ">> \o IntToStr(p)

\* Lines 479-483: the chunks, for the pages whose recognition returns nothing.
DenseChunks(ps, blank) ==
    SelectSeq([k \in 1..Len(ps) |-> IF ps[k] \in blank THEN <<>> ELSE PageText(ps[k])], LAMBDA t : t # <<>>)

\* "\n\n".join(cs)
RECURSIVE JoinChunks(_)
JoinChunks(cs) ==
    IF cs = <<>> THEN <<>>
    ELSE IF Len(cs) = 1 THEN cs[1]
    ELSE cs[1] \o <<"\n","\n">> \o JoinChunks(Tail(cs))

InitOcr ==
    /\ pc = "ocr"
    /\ page_count \in PageCounts
    /\ max_pages \in Budgets
    /\ hits = {} /\ pages = <<>> /\ chunks = <<>> /\ ocr_calls = 0
    /\ ocr_text = <<>>
    /\ history_rows = <<>> /\ shortlist_rows = <<>>
    /\ IdleLoop
    /\ IdleTenure
    /\ IdleCall

\* Lines 430-437: the engine is missing or the document does not open.
OcrUnavailable ==
    /\ pc = "ocr"
    /\ pc' = "returned"
    /\ ocr_text' = <<>>
    /\ UNCHANGED <<callVars, ocrVars, history_rows, shortlist_rows, loopVars, tenureVars>>

\* Lines 439-441: a document without pages.
OcrNoPages ==
    /\ pc = "ocr"
    /\ page_count <= 0
    /\ pc' = "returned"
    /\ ocr_text' = <<>>
    /\ UNCHANGED <<callVars, ocrVars, history_rows, shortlist_rows, loopVars, tenureVars>>

\* Lines 443-459: the sparse phase recognizes each of its pages; at most
\* MaxHits of them carry a text with the words.
SparsePhase ==
    /\ pc = "ocr"
    /\ page_count > 0
    /\ \E marked \in SubsetsUpTo(SparsePages(page_count), MaxHits) :
          hits' = SparseHits(SparsePages(page_count), marked)
    /\ ocr_calls' = ocr_calls + Cardinality(SparsePages(page_count))
    /\ pc' = "targeted"
    /\ UNCHANGED <<callVars, page_count, max_pages, pages, chunks, ocr_text, history_rows, shortlist_rows, loopVars, tenureVars>>

\* Lines 461-478: the page list of the dense phase.
BuildPages ==
    /\ pc = "targeted"
    /\ pages' = FirstPages(Ordered(page_count, hits), max_pages)
    /\ pc' = "dense"
    /\ UNCHANGED <<callVars, page_count, max_pages, hits, chunks, ocr_calls, ocr_text, history_rows, shortlist_rows,
                   loopVars, tenureVars>>

\* Lines 479-484: the dense phase recognizes each page of the list; every
\* page gives text, or all but the first, or none.
DensePhase ==
    /\ pc = "dense"
    /\ \E blank \in {{}, {pages[k] : k \in 1..Min(1, Len(pages))}, {pages[k] : k \in 1..Len(pages)}} :
          /\ chunks' = DenseChunks(pages, blank)
          /\ ocr_text' = JoinChunks(DenseChunks(pages, blank))
    /\ ocr_calls' = ocr_calls + Len(pages)
    /\ pc' = "returned"
    /\ UNCHANGED <<callVars, page_count, max_pages, hits, pages, history_rows, shortlist_rows, loopVars, tenureVars>>

NextOcr == OcrUnavailable \/ OcrNoPages \/ SparsePhase \/ BuildPages \/ DensePhase

SpecOcr == InitOcr /\ [][NextOcr]_vars

\* The pages the dense phase aims at: the front window and the pages around
\* the hits, as far as the document has them.
Targets == {p \in 0..(page_count - 1) : p < 14 \/ \E h \in hits : h - 2 <= p /\ p <= h + 2}

\* The list ps holds the first m numbers of T in ascending order.
IsFirstOf(ps, listed, T, m) ==
    /\ \A k \in 1..(Len(ps) - 1) : ps[k] < ps[k + 1]
    /\ Len(ps) = Min(m, Cardinality(T))
    /\ listed \subseteq T
    /\ \A t \in T \ listed : \A p \in listed : p < t

\* The pages of the list.
Listed == {pages[k] : k \in 1..Len(pages)}

\* The chunk a is the text of an earlier page than the chunk b: its page
\* number is shorter, or as long and smaller.
EarlierPage(a, b) == Len(a) < Len(b) \/ (Len(a) = Len(b) /\ StrLess(a, b))

\* C5: the calls of page recognition of one optical recovery, sparse and
\* dense phase together, never exceed max_pages.
C5_CallsWithinBudget == ocr_calls <= max_pages

\* C6: the page list of the dense phase is the first max_pages pages, in
\* ascending order, of the front window and the pages around the hits: it is
\* strictly ascending (so no page twice), it holds max_pages of the targets
\* or all of them, valid pages only, every target it leaves out comes after
\* all of its pages; and the texts of the chunks follow the order of their
\* pages.
C6_DensePageList ==
    pc \in {"dense", "returned"} /\ page_count > 0 /\ (pc = "returned" => ocr_calls > 0) =>
        /\ IsFirstOf(pages, Listed, Targets, max_pages)
        /\ \A k \in 1..Len(pages) : 0 <= pages[k] /\ pages[k] < page_count
        /\ \A k \in 1..(Len(chunks) - 1) : EarlierPage(chunks[k], chunks[k + 1])

\* Two hits behind the front window whose neighbourhoods share pages, a
\* budget that cuts the list among them, and the dense phase done.
C6_Witness ==
    /\ pc = "returned"
    /\ \E g, h \in hits : 14 <= g /\ g < h /\ h - g <= 4
    /\ Len(pages) = max_pages /\ max_pages > 14 /\ max_pages < Cardinality(Targets)
    /\ Len(chunks) = Len(pages)

----------------------------------------------------------------------------
(* compute_continuous_tenure on the records of one entity *)

MaxRecords == 2

TenureYears == {<<>>, <<"2","0","2","1">>, <<"2","0","2","2">>, <<"2","0","2","3">>}

TenureAuditors == {<<>>, <<"P","w","C">>, <<"E","Y">>}

\* The records of one entity, as far as compute_continuous_tenure reads them.
TenureRecords == [year : TenureYears, external_auditor : TenureAuditors]

InsertAt(rows, r, k) == SubSeq(rows, 1, k - 1) \o <<r>> \o SubSeq(rows, k, Len(rows))

InitTenure ==
    /\ pc = "records"
    /\ history_rows = <<>>
    /\ IdleTenure
    /\ IdleCall
    /\ ocr_text = <<>> /\ shortlist_rows = <<>>
    /\ IdleLoop
    /\ IdleOcr

\* One more record of the entity.
AddRecord ==
    /\ pc = "records"
    /\ Len(history_rows) < MaxRecords
    /\ \E r \in TenureRecords : history_rows' = Append(history_rows, r)
    /\ UNCHANGED <<callVars, pc, tenureVars, ocr_text, shortlist_rows, loopVars, ocrVars>>

\* Lines 506-519 on the records.
ComputeTenure ==
    /\ pc = "records"
    /\ pc' = "computed"
    /\ tenure' = compute_continuous_tenure(history_rows)
    /\ UNCHANGED <<callVars, history_rows, tenure_before, added, ocr_text, shortlist_rows, loopVars, ocrVars>>

\* Lines 506-519 again, on the records and one record more at the k-th place.
RecomputeTenure ==
    /\ pc = "computed"
    /\ \E r \in TenureRecords, k \in 1..(Len(history_rows) + 1) :
        /\ history_rows' = InsertAt(history_rows, r, k)
        /\ added' = [row |-> r, at |-> k]
        /\ tenure' = compute_continuous_tenure(InsertAt(history_rows, r, k))
    /\ tenure_before' = tenure
    /\ pc' = "recomputed"
    /\ UNCHANGED <<callVars, ocr_text, shortlist_rows, loopVars, ocrVars>>

NextTenure == AddRecord \/ ComputeTenure \/ RecomputeTenure

SpecTenure == InitTenure /\ [][NextTenure]_vars

----------------------------------------------------------------------------
(* Claims about compute_continuous_tenure *)

\* The i-th record comes before the j-th in the year-descending stable order.
Before(rows, i, j) ==
    StrLess(rows[j].year, rows[i].year) \/ (rows[i].year = rows[j].year /\ i < j)

\* The place of the most-recent record: none comes before it.
MostRecent(rows) == CHOOSE i \in 1..Len(rows) : \A j \in 1..Len(rows) : ~Before(rows, j, i)

\* The records that carry the auditor a with none but a's records before them.
LeadingRun(rows, a) ==
    {i \in 1..Len(rows) : \A j \in 1..Len(rows) : (j = i \/ Before(rows, j, i)) => rows[j].external_auditor = a}

CurrentAuditor(rows) == rows[MostRecent(rows)].external_auditor

TenureAsSpecified(rows) ==
    IF rows = <<>> THEN [auditor |-> <<>>, tenure |-> 0]
    ELSE IF CurrentAuditor(rows) = <<>> THEN [auditor |-> <<>>, tenure |-> 0]
    ELSE [auditor |-> CurrentAuditor(rows), tenure |-> Cardinality(LeadingRun(rows, CurrentAuditor(rows)))]

\* C9: compute_continuous_tenure returns the auditor of the most-recent record
\* and the length of the longest prefix of the year-descending stable order
\* whose records all carry that auditor, and ("", 0) for no records or an empty
\* most-recent auditor; so the tenure is at least 1 with a current auditor and
\* never more than the number of records.
C9_TenureIsLeadingRun ==
    pc \in {"computed", "recomputed"} =>
        /\ tenure = TenureAsSpecified(history_rows)
        /\ (tenure.auditor # <<>> => tenure.tenure >= 1)
        /\ tenure.tenure <= Len(history_rows)

C9_Witness ==
    /\ pc = "recomputed"
    /\ Len(history_rows) = 3
    /\ tenure.tenure = 2
    /\ \E i \in 1..3 : history_rows[i].external_auditor # tenure.auditor
    /\ \E i, j \in 1..3 : i < j /\ history_rows[i].year = history_rows[j].year /\ history_rows[i].external_auditor # history_rows[j].external_auditor

\* The records before the added one came.
RecordsBefore == SubSeq(history_rows, 1, added.at - 1) \o SubSeq(history_rows, added.at + 1, Len(history_rows))

AddedIsOlder == \E i \in 1..Len(RecordsBefore) : StrLess(added.row.year, RecordsBefore[i].year)

AddedIsNewer == \A i \in 1..Len(RecordsBefore) : StrLess(RecordsBefore[i].year, added.row.year)

\* C10: with a current auditor, one more record that is older than the
\* most-recent year and carries the current auditor never decreases the
\* tenure; one more record that is newer than every year and carries another
\* auditor makes the tenure at most 1.
C10_TenureMonotone ==
    pc = "recomputed" /\ tenure_before.auditor # <<>> =>
        /\ (AddedIsOlder /\ added.row.external_auditor = tenure_before.auditor
                => tenure.tenure >= tenure_before.tenure)
        /\ (AddedIsNewer /\ added.row.external_auditor # tenure_before.auditor
                => tenure.tenure <= 1)

C10_Witness ==
    /\ pc = "recomputed"
    /\ tenure_before.auditor # <<>>
    /\ AddedIsOlder
    /\ added.row.external_auditor = tenure_before.auditor
    /\ tenure.tenure > tenure_before.tenure
    /\ Len(history_rows) = 3

C10_WitnessNewer ==
    /\ pc = "recomputed"
    /\ tenure_before.tenure = 2
    /\ AddedIsNewer
    /\ added.row.external_auditor \notin {<<>>, tenure_before.auditor}
    /\ tenure.tenure = 1

----------------------------------------------------------------------------
(* build_shortlist on the rows of the history *)

MaxRows == 3

\* Rows of two entities, as far as build_shortlist reads them.
AggRows == {
    [company_number |-> <<"A">>, company |-> <<"A","c","m","e"," ","p","l","c">>, year |-> <<"2","0","2","3">>, external_auditor |-> <<>>,
     audit_fee |-> <<"1","2","5","0","0","0">>, fee_unit |-> "", currency |-> "GBP"],
    [company_number |-> <<"A">>, company |-> <<"A","c","m","e"," ","p","l","c">>, year |-> <<"2","0","2","2">>, external_auditor |-> <<"P","w","C">>,
     audit_fee |-> <<>>, fee_unit |-> "", currency |-> ""],
    [company_number |-> <<"A">>, company |-> <<"A","c","m","e"," ","p","l","c">>, year |-> <<"2","0","2","3">>, external_auditor |-> <<"P","w","C">>,
     audit_fee |-> <<"2">>, fee_unit |-> "million", currency |-> ""],
    [company_number |-> <<"A">>, company |-> <<"A","c","m","e"," ","p","l","c">>, year |-> <<"2","0","2","2">>, external_auditor |-> <<"E","Y">>,
     audit_fee |-> <<"-","4","5","0","0","0">>, fee_unit |-> "", currency |-> "GBP"],
    [company_number |-> <<"B">>, company |-> <<"B","o","l","t"," ","l","t","d">>, year |-> <<"2","0","2","3">>, external_auditor |-> <<"E","Y">>,
     audit_fee |-> <<"3","0","0">>, fee_unit |-> "thousand", currency |-> "USD"],
    [company_number |-> <<"B">>, company |-> <<"B","o","l","t"," ","l","t","d">>, year |-> <<"2","0","2","2">>, external_auditor |-> <<"E","Y">>,
     audit_fee |-> <<"1",".","5">>, fee_unit |-> "million", currency |-> "GBP"],
    [company_number |-> <<"B">>, company |-> <<"B","o","l","t"," ","l","t","d">>, year |-> <<>>, external_auditor |-> <<>>,
     audit_fee |-> <<>>, fee_unit |-> "", currency |-> ""],
    [company_number |-> <<"B">>, company |-> <<"B","o","l","t"," ","l","t","d">>, year |-> <<"2","0","2","3">>, external_auditor |-> <<"P","w","C">>,
     audit_fee |-> <<"n","/","a">>, fee_unit |-> "thousand", currency |-> "GBP"],
    [company_number |-> <<"A">>, company |-> <<"A","c","m","e"," ","p","l","c">>, year |-> <<"2","0","2","1">>, external_auditor |-> <<"P","w","C">>,
     audit_fee |-> <<"0">>, fee_unit |-> "thousand", currency |-> "GBP"]}

InitAgg ==
    /\ pc = "rows"
    /\ history_rows = <<>>
    /\ shortlist_rows = <<>>
    /\ ocr_text = <<>>
    /\ IdleLoop
    /\ IdleOcr
    /\ IdleTenure
    /\ IdleCall

\* One more row of the history.
AddRow ==
    /\ pc = "rows"
    /\ Len(history_rows) < MaxRows
    /\ \E r \in AggRows : history_rows' = Append(history_rows, r)
    /\ UNCHANGED <<callVars, pc, shortlist_rows, ocr_text, loopVars, ocrVars, tenureVars>>

\* Lines 522-560 on the rows.
BuildShortlist ==
    /\ pc = "rows"
    /\ pc' = "shortlisted"
    /\ shortlist_rows' = build_shortlist(history_rows)
    /\ UNCHANGED <<callVars, history_rows, ocr_text, loopVars, ocrVars, tenureVars>>

NextAgg == AddRow \/ BuildShortlist

SpecAgg == InitAgg /\ [][NextAgg]_vars

\* The entities of the history whose most-recent record has no auditor.
WithoutCurrentAuditor ==
    {c \in {history_rows[i].company_number : i \in 1..Len(history_rows)} :
        CurrentAuditor(Grouped(history_rows, c)) = <<>>}

EntriesOf(c) == {k \in 1..Len(shortlist_rows) : shortlist_rows[k].company_number = c}

\* C8: an entity whose most-recent record has an empty auditor still has an
\* entry in the shortlist, with continuous tenure 0 and priority score 0,
\* whatever fees its records carry.
C8_NoAuditorNoScore ==
    pc = "shortlisted" =>
        \A c \in WithoutCurrentAuditor :
            /\ EntriesOf(c) # {}
            /\ \A k \in EntriesOf(c) :
                /\ shortlist_rows[k].continuous_tenure_years = <<"0">>
                /\ shortlist_rows[k].priority_score = <<"0",".","0">>

----------------------------------------------------------------------------
(* The end of main(): the collected rows are sorted and shortlisted *)

InitCollect ==
    /\ pc = "collect"
    /\ history_rows = <<>>
    /\ shortlist_rows = <<>>
    /\ ocr_text = <<>>
    /\ IdleLoop
    /\ IdleOcr
    /\ IdleTenure
    /\ IdleCall

\* Line 716: one more row is collected.
CollectRow ==
    /\ pc = "collect"
    /\ Len(history_rows) < MaxRows
    /\ \E r \in AggRows : history_rows' = Append(history_rows, r)
    /\ UNCHANGED <<callVars, pc, shortlist_rows, ocr_text, loopVars, ocrVars, tenureVars>>

\* Lines 718-719: the sort of the history and the shortlist of the sorted rows.
SortAndShortlist ==
    /\ pc = "collect"
    /\ pc' = "sorted"
    /\ history_rows' = SortedHistory(history_rows)
    /\ shortlist_rows' = build_shortlist(SortedHistory(history_rows))
    /\ UNCHANGED <<callVars, ocr_text, loopVars, ocrVars, tenureVars>>

NextCollect == CollectRow \/ SortAndShortlist

SpecCollect == InitCollect /\ [][NextCollect]_vars

\* The orders in which the rows can have been collected.
Orderings(rows) == {[i \in 1..Len(rows) |-> rows[p[i]]] : p \in Permutations(1..Len(rows))}

\* What the claim compares of an entry.
Compared(out) ==
    [k \in 1..Len(out) |->
        <<out[k].company_number, out[k].current_external_auditor, out[k].continuous_tenure_years,
          out[k].latest_audit_fee_gbp, out[k].priority_score, out[k].tender_status>>]

\* C11: the shortlist does not depend on the order in which the rows were
\* collected: after the sort of the history by (company_number, year),
\* build_shortlist returns the same entries in the same order for every
\* ordering of the same rows.
C11_OrderIndependent ==
    pc = "sorted" =>
        \A o \in Orderings(history_rows) :
            Compared(build_shortlist(SortedHistory(o))) = Compared(shortlist_rows)

----------------------------------------------------------------------------
(* Claims about build_shortlist and fee_to_gbp_numeric *)

\* The rows of the history of the entity c.
RowsOf(c) == SelectSeq(history_rows, LAMBDA r : r.company_number = c)

\* The rows whose currency is one of curs.
WithCurrency(rows, curs) == SelectSeq(rows, LAMBDA r : r.currency \in curs)

\* The latest fee build_shortlist reports for the rows of one entity.
ReportedFee(rows) == IF rows = <<>> THEN <<>> ELSE FormatFee(LatestFee(FeeValues(rows)))

\* C12 as stated: a record whose currency is not equal to GBP never
\* contributes to the latest fee of its entity, so the fee of every entry is
\* the fee of the entity's rows whose currency is GBP.
C12_OnlyGbpRowsCount ==
    pc = "shortlisted" =>
        \A k \in 1..Len(shortlist_rows) :
            \A rows \in {WithCurrency(RowsOf(shortlist_rows[k].company_number), {"GBP"})} :
                shortlist_rows[k].latest_audit_fee_gbp = ReportedFee(rows)

\* C12 as amended: a record whose currency is set and is not GBP never
\* contributes to the latest fee of its entity, whatever its fee value and
\* unit: the fee of every entry is the fee of the entity's rows whose currency
\* is empty or GBP.
C12_ForeignRowsNeverCount ==
    pc = "shortlisted" =>
        \A k \in 1..Len(shortlist_rows) :
            \A rows \in {WithCurrency(RowsOf(shortlist_rows[k].company_number), {"", "GBP"})} :
                shortlist_rows[k].latest_audit_fee_gbp = ReportedFee(rows)

C12_Witness ==
    /\ pc = "shortlisted"
    /\ \E k \in 1..Len(shortlist_rows) :
        /\ shortlist_rows[k].latest_audit_fee_gbp # <<>>
        /\ \E i \in 1..Len(history_rows) :
            /\ history_rows[i].company_number = shortlist_rows[k].company_number
            /\ history_rows[i].currency = "USD"
            /\ float(history_rows[i].audit_fee).ok

\* The normalized fees of the rows that are numbers above zero.
PositiveFees(rows) ==
    {d \in {fee_to_gbp_numeric(rows[i].audit_fee, rows[i].fee_unit, rows[i].currency) : i \in 1..Len(rows)} :
        d.ok /\ ~d.neg /\ d.ip \o d.fp # <<>>}

\* m is the greatest of the fees.
IsGreatest(m, fees) == m \in fees /\ \A d \in fees : ~MagnitudeLess(m, d)

\* C13: the latest fee of an entry is the maximum, over all records of the
\* entity, of the normalized fees that normalized successfully and are above
\* zero; with no such fee the fee is reported empty and the fee score is 0, so
\* the priority score is 0.65 times the tenure score.
C13_LatestFeeIsMaximum ==
    pc = "shortlisted" =>
        \A k \in 1..Len(shortlist_rows) :
            IF PositiveFees(RowsOf(shortlist_rows[k].company_number)) = {}
            THEN /\ shortlist_rows[k].latest_audit_fee_gbp = <<>>
                 /\ shortlist_rows[k].priority_score
                        = FormatScore(650 * Min(10, compute_continuous_tenure(RowsOf(shortlist_rows[k].company_number)).tenure))
            ELSE \E m \in PositiveFees(RowsOf(shortlist_rows[k].company_number)) :
                    /\ IsGreatest(m, PositiveFees(RowsOf(shortlist_rows[k].company_number)))
                    /\ shortlist_rows[k].latest_audit_fee_gbp = FormatFee(m)

\* The latest fee comes from a record that is not the most recent one and
\* carries another auditor than the current one.
C13_Witness ==
    /\ pc = "shortlisted"
    /\ \E k \in 1..Len(shortlist_rows), i, j \in 1..Len(history_rows) :
        /\ history_rows[i].company_number = shortlist_rows[k].company_number
        /\ history_rows[j].company_number = shortlist_rows[k].company_number
        /\ StrLess(history_rows[i].year, history_rows[j].year)
        /\ history_rows[i].external_auditor # shortlist_rows[k].current_external_auditor
        /\ shortlist_rows[k].latest_audit_fee_gbp # <<>>
        /\ ReportedFee(<<history_rows[i]>>) = shortlist_rows[k].latest_audit_fee_gbp
        /\ ReportedFee(<<history_rows[j]>>) # shortlist_rows[k].latest_audit_fee_gbp

\* The number the digits ds stand for.
RECURSIVE DigitsValue(_)
DigitsValue(ds) ==
    IF ds = <<>> THEN 0
    ELSE 10 * DigitsValue(SubSeq(ds, 1, Len(ds) - 1)) + (CHOOSE d \in 0..9 : DigitChars[d + 1] = ds[Len(ds)])

\* The priority score of an entry in hundredths: the digits before the point,
\* and one or two digits after it.
Hundredths(score) ==
    LET dot == CHOOSE k \in 1..Len(score) : score[k] = "."
        whole == SubSeq(score, 1, dot - 1)
        frac == SubSeq(score, dot + 1, Len(score))
    IN 100 * DigitsValue(whole) + (IF Len(frac) = 1 THEN 10 * DigitsValue(frac) ELSE DigitsValue(frac))

\* C16: build_shortlist returns exactly one entry for each entity identifier
\* of the history rows, none missing and none twice, in the order of
\* non-increasing priority score.
C16_OneEntryPerEntitySorted ==
    pc = "shortlisted" =>
        /\ {shortlist_rows[k].company_number : k \in 1..Len(shortlist_rows)}
                = {history_rows[i].company_number : i \in 1..Len(history_rows)}
        /\ \A j, k \in 1..Len(shortlist_rows) :
                j < k => shortlist_rows[j].company_number # shortlist_rows[k].company_number
        /\ \A k \in 1..(Len(shortlist_rows) - 1) :
                Hundredths(shortlist_rows[k].priority_score) >= Hundredths(shortlist_rows[k + 1].priority_score)

\* Two entities, each with two rows or one, and the entity of the first row
\* comes second for its smaller score.
C16_Witness ==
    /\ pc = "shortlisted"
    /\ Len(history_rows) = 3
    /\ Len(shortlist_rows) = 2
    /\ shortlist_rows[2].company_number = history_rows[1].company_number
    /\ Hundredths(shortlist_rows[1].priority_score) > Hundredths(shortlist_rows[2].priority_score)

----------------------------------------------------------------------------
(* fee_to_gbp_numeric on one value, unit and currency *)

\* Values: none, numbers with and without sign, point and blanks, and texts
\* float() does not take.
FeeInputs ==
    {<<>>, <<"1","2","5","0","0","0">>, <<"-","4","5","0","0","0">>, <<"1",".","5">>, <<"0">>, <<"n","/","a">>, <<"1",",","0","0","0">>, <<" ","4","2"," ">>, <<"+","7">>, <<"0","0","7">>, <<"1","2",".">>, <<".","5">>, <<"-","0",".","2","5">>,
     <<"1",".","2",".","3">>, <<"-">>}

FeeUnits == {"", "thousand", "million", "billion", "hundred", "Million"}

FeeCurrencies == {"", "GBP", "USD", "EUR", "gbp"}

InitFee ==
    /\ pc = "fee"
    /\ fee_args \in [value : FeeInputs, unit : FeeUnits, currency : FeeCurrencies]
    /\ input_text = <<>> /\ fee_gbp = <<>> /\ extracted = <<>> /\ text_parts = 0
    /\ history_rows = <<>>
    /\ shortlist_rows = <<>>
    /\ ocr_text = <<>>
    /\ IdleLoop
    /\ IdleOcr
    /\ IdleTenure

\* Lines 487-503
NormalizeFee ==
    /\ pc = "fee"
    /\ pc' = "normalized"
    /\ fee_gbp' = fee_to_gbp_numeric(fee_args.value, fee_args.unit, fee_args.currency)
    /\ UNCHANGED <<input_text, fee_args, extracted, text_parts, history_rows, shortlist_rows, ocr_text, loopVars, ocrVars, tenureVars>>

NextFee == NormalizeFee

SpecFee == InitFee /\ [][NextFee]_vars

\* The numbers the values stand for: <<value, negative, digits, exponent>>
\* for digits * 10^exponent, the digits without zeros at either end.  The
\* values that are no numbers are not listed.
NumberOfValue ==
    << <<<<"1","2","5","0","0","0">>, FALSE, <<"1","2","5">>, 3>>, <<<<"-","4","5","0","0","0">>, TRUE, <<"4","5">>, 3>>, <<<<"1",".","5">>, FALSE, <<"1","5">>, -1>>,
       <<<<"0">>, FALSE, <<>>, 0>>, <<<<" ","4","2"," ">>, FALSE, <<"4","2">>, 0>>, <<<<"+","7">>, FALSE, <<"7">>, 0>>,
       <<<<"0","0","7">>, FALSE, <<"7">>, 0>>, <<<<"1","2",".">>, FALSE, <<"1","2">>, 0>>, <<<<".","5">>, FALSE, <<"5">>, -1>>,
       <<<<"-","0",".","2","5">>, TRUE, <<"2","5">>, -2>> >>

IsNumber(value) == \E k \in 1..Len(NumberOfValue) : NumberOfValue[k][1] = value

NumberOf(value) == NumberOfValue[CHOOSE k \in 1..Len(NumberOfValue) : NumberOfValue[k][1] = value]

\* The digits of a decimal without the zeros at either end, and the exponent
\* of its last digit.
Mantissa(d) == rstrip(lstrip(d.ip \o d.fp, {"0"}), {"0"})

Exponent(d) == IF d.fp # <<>> THEN 0 - Len(d.fp) ELSE Len(d.ip) - Len(rstrip(d.ip, {"0"}))

\* The exponent of the scale factor the claim gives the unit.
ScaleOf(unit) ==
    CASE unit = "thousand" -> 3 [] unit = "million" -> 6 [] unit = "billion" -> 9 [] OTHER -> 0

\* C14: fee_to_gbp_numeric returns None when the value is empty or not
\* numeric, or when the currency is set and is not GBP; otherwise it returns
\* the value times 1,000 for "thousand", 1,000,000 for "million",
\* 1,000,000,000 for "billion" and 1 for any other unit, with the sign of the
\* value.
C14_FeeNormalization ==
    pc = "normalized" =>
        IF ~IsNumber(fee_args.value) \/ fee_args.currency \notin {"", "GBP"}
        THEN fee_gbp = None
        ELSE /\ fee_gbp.ok
             /\ fee_gbp.neg = NumberOf(fee_args.value)[2]
             /\ Mantissa(fee_gbp) = NumberOf(fee_args.value)[3]
             /\ Mantissa(fee_gbp) # <<>> =>
                    Exponent(fee_gbp) = NumberOf(fee_args.value)[4] + ScaleOf(fee_args.unit)

C14_Witness ==
    /\ pc = "normalized"
    /\ fee_args = [value |-> <<"-","0",".","2","5">>, unit |-> "billion", currency |-> "GBP"]
    /\ fee_gbp = [ok |-> TRUE, neg |-> TRUE, ip |-> <<"2","5","0","0","0","0","0","0","0">>, fp |-> <<>>]

----------------------------------------------------------------------------
(* build_shortlist on the records of one entity over many years *)

MaxYears == 9

\* The fee and unit of the entity's first record: none, zero, and fees below,
\* at and above 1,000,000.
StatusFees ==
    {[audit_fee |-> <<>>, fee_unit |-> ""], [audit_fee |-> <<"0">>, fee_unit |-> ""],
     [audit_fee |-> <<"9","9","9","9","9","9">>, fee_unit |-> ""], [audit_fee |-> <<"1">>, fee_unit |-> "million"],
     [audit_fee |-> <<"1",".","2">>, fee_unit |-> "million"], [audit_fee |-> <<"2">>, fee_unit |-> "million"]}

\* The record of the n-th year with the auditor a and the fee f.
YearRecord(n, a, f) ==
    [company_number |-> <<"A">>, company |-> <<"A","c","m","e"," ","p","l","c">>, year |-> <<"2","0">> \o IntToStr(14 + n), external_auditor |-> a,
     audit_fee |-> f.audit_fee, fee_unit |-> f.fee_unit, currency |-> "GBP"]

NoFee == [audit_fee |-> <<>>, fee_unit |-> ""]

InitStatus ==
    /\ pc = "years"
    /\ history_rows = <<>>
    /\ shortlist_rows = <<>>
    /\ ocr_text = <<>>
    /\ IdleLoop
    /\ IdleOcr
    /\ IdleTenure
    /\ IdleCall

\* The record of one more year; the first record carries the fee.
AddYear ==
    /\ pc = "years"
    /\ Len(history_rows) < MaxYears
    /\ \E a \in {<<"P","w","C">>, <<"E","Y">>}, f \in (IF history_rows = <<>> THEN StatusFees ELSE {NoFee}) :
        history_rows' = Append(history_rows, YearRecord(Len(history_rows) + 1, a, f))
    /\ UNCHANGED <<callVars, pc, shortlist_rows, ocr_text, loopVars, ocrVars, tenureVars>>

\* Lines 522-560 on the records.
ShortlistYears ==
    /\ pc = "years"
    /\ history_rows # <<>>
    /\ pc' = "status"
    /\ shortlist_rows' = build_shortlist(history_rows)
    /\ UNCHANGED <<callVars, history_rows, ocr_text, loopVars, ocrVars, tenureVars>>

NextStatus == AddYear \/ ShortlistYears

SpecStatus == InitStatus /\ [][NextStatus]_vars

\* The tenure an entry reports, as a number.
TenureOfEntry(e) == CHOOSE n \in 0..(MaxYears + 1) : IntToStr(n) = e.continuous_tenure_years

\* The fee an entry reports is 1,000,000 or more: a whole number of seven
\* digits or more.  An absent fee counts as 0.
FeeAtLeastMillion(e) == Len(e.latest_audit_fee_gbp) >= 7

StatusAsSpecified(e) ==
    IF TenureOfEntry(e) >= 8 /\ FeeAtLeastMillion(e) THEN "hot"
    ELSE IF TenureOfEntry(e) >= 6 THEN "watch"
    ELSE "monitor"

StatusRank(s) == CASE s = "monitor" -> 0 [] s = "watch" -> 1 [] s = "hot" -> 2

\* The records with one more year of the current auditor and the fee f.
WithOneMoreYear(f) ==
    Append(history_rows, YearRecord(Len(history_rows) + 1, history_rows[Len(history_rows)].external_auditor, f))

\* The entry e comes of more tenure and no less fee than the entry d.
MoreTenure(d, e) ==
    /\ TenureOfEntry(e) = TenureOfEntry(d) + 1
    /\ Len(e.latest_audit_fee_gbp) >= Len(d.latest_audit_fee_gbp)

\* C15: the status of every entry is "hot" exactly when tenure >= 8 and latest
\* fee >= 1,000,000, otherwise "watch" exactly when tenure >= 6, otherwise
\* "monitor"; and in the order monitor < watch < hot the status does not
\* decrease when the tenure or the fee increases.
C15_StatusTiers ==
    pc = "status" =>
        /\ \A k \in 1..Len(shortlist_rows) : shortlist_rows[k].tender_status = StatusAsSpecified(shortlist_rows[k])
        /\ \A f \in {NoFee, [audit_fee |-> <<"2">>, fee_unit |-> "million"]} : \A rows \in {WithOneMoreYear(f)} : \A out \in {build_shortlist(rows)} :
            /\ MoreTenure(shortlist_rows[1], out[1])
            /\ StatusRank(out[1].tender_status) >= StatusRank(shortlist_rows[1].tender_status)

\* Tenure 9 with fee 1,200,000 is hot.
C15_Witness ==
    /\ pc = "status"
    /\ shortlist_rows[1].continuous_tenure_years = <<"9">>
    /\ shortlist_rows[1].latest_audit_fee_gbp = <<"1","2","0","0","0","0","0">>
    /\ shortlist_rows[1].tender_status = "hot"

----------------------------------------------------------------------------
(* extract_external_auditor on a text of a few lines *)

MaxLines == 3

AuditorLine == <<"A","u","d","i","t","o","r",":"," ","D","e","l","o","i","t","t","e"," ","L","L","P">>

\* A line that names Deloitte and runs on for more than NearWindow
\* characters without a word of HasAuditWord.
LongLine ==
    <<"D","e","l","o","i","t","t","e"," ","a","d","v","i","s","e","d"," ","t","h","e"," ","g","r","o","u","p"," ","o","n"," ","t","a","x"," ","i","n"," ","t","h","e"," ","y","e","a","r"," ","a","n","d"," ","i","n"," ","t","h","e"," ","p","r","i","o","r"," ","y","e","a","r",","," ","a","n","d"," ","t","h","e"," ","c","h","a","r","g","e","s"," ","f","o","r"," ","t","h","a","t"," ","a","d","v","i","c","e"," ","a","r","e"," ","s","h","o","w","n"," ","w","i","t","h"," ","t","h","e"," ","o","t","h","e","r"," ","o","p","e","r","a","t","i","n","g"," ","c","h","a","r","g","e","s"," ","o","f"," ","t","h","e"," ","g","r","o","u","p"," ","i","n"," ","t","h","e"," ","n","o","t","e","s">>

AuditorLines ==
    {AuditorLine, <<"A","u","d","i","t","o","r",":"," ","s","e","e"," ","t","h","e"," ","d","i","r","e","c","t","o","r","s"," ","s","t","a","t","e","m","e","n","t">>, <<"A","u","d","i","t"," ","s","u","r","v","e","y">>, <<"F","o","r"," ","a","n","d"," ","o","n"," ","b","e","h","a","l","f"," ","o","f"," ","K","P","M","G"," ","L","L","P">>,
     <<"I","n","d","e","p","e","n","d","e","n","t"," ","a","u","d","i","t","o","r","'","s"," ","r","e","p","o","r","t">>, <<"A","u","d","i","t","o","r","s",":"," ","A","c","m","e"," ","W","i","d","g","e","t","s"," ","L","t","d">>, LongLine}

InitAuditor ==
    /\ pc = "text"
    /\ input_text = <<>>
    /\ extracted = <<>>
    /\ text_parts = 0
    /\ fee_args = <<>> /\ fee_gbp = <<>>
    /\ history_rows = <<>>
    /\ shortlist_rows = <<>>
    /\ ocr_text = <<>>
    /\ IdleLoop
    /\ IdleOcr
    /\ IdleTenure

\* One more line of the text.
AddLine(l) ==
    /\ pc = "text"
    /\ text_parts < MaxLines
    /\ text_parts' = text_parts + 1
    /\ input_text' = (IF input_text = <<>> THEN l ELSE input_text \o <<"\n">> \o l)
    /\ UNCHANGED <<pc, extracted, fee_args, fee_gbp, history_rows, shortlist_rows, ocr_text, loopVars, ocrVars, tenureVars>>

\* Lines 240-260
ExtractAuditor ==
    /\ pc = "text"
    /\ pc' = "extracted"
    /\ extracted' = extract_external_auditor(input_text)
    /\ UNCHANGED <<input_text, text_parts, fee_args, fee_gbp, history_rows, shortlist_rows, ocr_text, loopVars, ocrVars, tenureVars>>

NextAuditor ==
    \/ \E l \in AuditorLines : AddLine(l)
    \/ ExtractAuditor

SpecAuditor == InitAuditor /\ [][NextAuditor]_vars

\* The text has the line l.
HasLine(l) == \E i \in 1..Len(splitlines(input_text)) : splitlines(input_text)[i] = l

\* The text has the heading of an auditor's report.
HasReportHeading ==
    \E h \in {<<"i","n","d","e","p","e","n","d","e","n","t"," ","a","u","d","i","t","o","r","'","s"," ","r","e","p","o","r","t">>, <<"i","n","d","e","p","e","n","d","e","n","t"," ","a","u","d","i","t","o","r","s","'"," ","r","e","p","o","r","t">>,
              <<"i","n","d","e","p","e","n","d","e","n","t"," ","a","u","d","i","t","o","r","{","r","s","q","u","o","}","s"," ","r","e","p","o","r","t">>, <<"i","n","d","e","p","e","n","d","e","n","t"," ","a","u","d","i","t","o","r","s","{","r","s","q","u","o","}"," ","r","e","p","o","r","t">>} :
        Contains(str_lower(input_text), h)

\* C17: for a text with a line "Auditor: Deloitte LLP" and no heading of an
\* auditor's report, extract_external_auditor returns the auditor Deloitte
\* with the confidence medium or high, never low, whatever the other lines.
C17_AuditorLineGivesDeloitte ==
    (pc = "extracted" /\ HasLine(AuditorLine) /\ ~HasReportHeading) =>
        /\ extracted.auditor = <<"D","e","l","o","i","t","t","e">>
        /\ extracted.confidence \in {"medium", "high"}

----------------------------------------------------------------------------
(* extract_audit_fee on a text of a few lines and blocks of lines *)

FeeHeader == <<"A","u","d","i","t","o","r","s","'"," ","r","e","m","u","n","e","r","a","t","i","o","n">>

FeeLine == <<"A","u","d","i","t"," ","o","f"," ","t","h","e"," ","f","i","n","a","n","c","i","a","l"," ","s","t","a","t","e","m","e","n","t","s"," ","1","2","5",",","0","0","0">>

BracketLine == <<"S","t","a","t","u","t","o","r","y"," ","a","u","d","i","t"," ","(","4","5",",","0","0","0",")">>

PlainLine == <<"C","a","s","h"," ","7">>

\* n lines PlainLine
PlainBlock(n) ==
    SubSeq([i \in 1..(n * (Len(PlainLine) + 1)) |->
               IF i % (Len(PlainLine) + 1) = 0 THEN "\n" ELSE PlainLine[i % (Len(PlainLine) + 1)]],
           1, n * (Len(PlainLine) + 1) - 1)

FeeLines == {FeeHeader, FeeLine, BracketLine, <<"T","o","t","a","l"," ","a","u","d","i","t"," ","o","f"," ","t","h","e"," ","g","r","o","u","p"," ","5">>, <<"A","u","d","i","t"," ","o","f"," ","t","h","e"," ","c","o","m","p","a","n","y"," ","2","0","2","3"," ","1",",","2","5","0",".","5","0">>}

\* The lengths of the blocks of plain lines: after a header, the one puts
\* the next line at the end of the window of the header, the other behind it.
BlockLengths == {FeeWindow - 2, FeeWindow - 1}

InitFeeRow ==
    /\ pc = "text"
    /\ input_text = <<>>
    /\ extracted = <<>>
    /\ text_parts = 0
    /\ fee_args = <<>> /\ fee_gbp = <<>>
    /\ history_rows = <<>>
    /\ shortlist_rows = <<>>
    /\ ocr_text = <<>>
    /\ IdleLoop
    /\ IdleOcr
    /\ IdleTenure

\* One more line of the text.
AddPart(p) ==
    /\ pc = "text"
    /\ text_parts < MaxLines
    /\ text_parts' = text_parts + 1
    /\ input_text' = (IF input_text = <<>> THEN p ELSE input_text \o <<"\n">> \o p)
    /\ UNCHANGED <<pc, extracted, fee_args, fee_gbp, history_rows, shortlist_rows, ocr_text, loopVars, ocrVars, tenureVars>>

\* A block of plain lines, one to a text.
AddBlock(n) ==
    /\ pc = "text"
    /\ text_parts < MaxLines
    /\ Len(splitlines(input_text)) < FeeWindow - 2
    /\ text_parts' = text_parts + 1
    /\ input_text' = (IF input_text = <<>> THEN PlainBlock(n) ELSE input_text \o <<"\n">> \o PlainBlock(n))
    /\ UNCHANGED <<pc, extracted, fee_args, fee_gbp, history_rows, shortlist_rows, ocr_text, loopVars, ocrVars, tenureVars>>

\* Lines 311-351
ExtractFee ==
    /\ pc = "text"
    /\ pc' = "extracted"
    /\ extracted' = extract_audit_fee(input_text)
    /\ UNCHANGED <<input_text, text_parts, fee_args, fee_gbp, history_rows, shortlist_rows, ocr_text, loopVars, ocrVars, tenureVars>>

NextFeeRow ==
    \/ \E p \in FeeLines : AddPart(p)
    \/ \E n \in BlockLengths : AddBlock(n)
    \/ ExtractFee

SpecFeeRow == InitFeeRow /\ [][NextFeeRow]_vars

\* What the lines of the texts are: a header or not, and the first number of
\* the line when it is a fee row, commas removed and a bracket read as minus.
LineKinds ==
    << <<FeeHeader, TRUE, <<>> >>, <<FeeLine, FALSE, <<"1","2","5","0","0","0">>>>, <<BracketLine, FALSE, <<"-","4","5","0","0","0">>>>,
       <<<<"T","o","t","a","l"," ","a","u","d","i","t"," ","o","f"," ","t","h","e"," ","g","r","o","u","p"," ","5">>, FALSE, <<>> >>, <<<<"A","u","d","i","t"," ","o","f"," ","t","h","e"," ","c","o","m","p","a","n","y"," ","2","0","2","3"," ","1",",","2","5","0",".","5","0">>, FALSE, <<"2","0","2","3">>>>,
       <<PlainLine, FALSE, <<>> >> >>

KindOf(ln) == LineKinds[CHOOSE k \in 1..Len(LineKinds) : LineKinds[k][1] = ln]

IsHeaderLine(ln) == KindOf(ln)[2]

RowNumber(ln) == KindOf(ln)[3]

\* The lines from k + 1 on that are in the window of a header at k.
After(ls, k) == (k + 1)..Min(Len(ls), k + FeeWindow - 1)

====
